---------------------------- MODULE Spec2Model ----------------------------
(***************************************************************************)
(* Model of mdpad's two diff engines.                                      *)
(*                                                                         *)
(*   src/src/renderer/lib/diff-engine.js    computeDiff, addWordLevelDiffs *)
(*   src/src/renderer/lib/markdown-diff.js  splitIntoBlocks,               *)
(*                                          renderMarkdownDiff(Inline)     *)
(*                                                                         *)
(* A JavaScript string is a sequence of one-character strings.  The        *)
(* functions imported from the "diff" package (jsdiff: diffLines,          *)
(* diffWords, diffArrays) are modelled by what the package computes: its   *)
(* tokenizers, its Myers edit-script search with its tie-breaking, and its *)
(* join of the tokens of each change object.                               *)
(***************************************************************************)
EXTENDS Integers, Sequences, FiniteSets, TLC

(***************************************************************************)
(* Bounds of the model.                                                    *)
(***************************************************************************)
\* most lines of a text handed to computeDiff
MaxLines == 3
\* most lines of a text handed to splitIntoBlocks
MaxMdLines == 4
\* most lines of a text handed to renderMarkdownDiff(Inline)
MaxBlockLines == 3
\* most lines of a text handed to every one of the diff functions
MaxAnyLines == 2
\* most lines of a text of fence lines handed to splitIntoBlocks
MaxFenceLines == 5

(***************************************************************************)
(* JavaScript values.                                                      *)
(***************************************************************************)
\* null / an absent property, and a present value
Null == <<>>
Some(x) == <<x>>

NL == "\n"
\* the backtick character U+0060, which a TLA+ string cannot hold
Backtick == "BACKTICK"

Min(a, b) == IF a < b THEN a ELSE b
Max(a, b) == IF a < b THEN b ELSE a

\* \s of a JavaScript regular expression, on the characters of the model
IsSpace(c) == c \in {" ", "\n", "\t"}

\* [A-Za-z0-9_] on the characters of the model
IsWordChar(c) == c \in {"a", "b", "c", "1", "2"}

\* Array.prototype.join("") of an array of strings
RECURSIVE Concat(_)
Concat(ss) == IF ss = <<>> THEN <<>> ELSE Head(ss) \o Concat(Tail(ss))

\* Array.prototype.join("\n")
RECURSIVE JoinNl(_)
JoinNl(ls) ==
  IF ls = <<>> THEN <<>>
  ELSE IF Len(ls) = 1 THEN ls[1]
  ELSE ls[1] \o <<NL>> \o JoinNl(Tail(ls))

\* String.prototype.split("\n"): always at least one piece
RECURSIVE SplitFrom(_, _, _)
SplitFrom(s, i, cur) ==
  IF i > Len(s) THEN <<cur>>
  ELSE IF s[i] = NL THEN <<cur>> \o SplitFrom(s, i + 1, <<>>)
  ELSE SplitFrom(s, i + 1, Append(cur, s[i]))

SplitNl(s) == SplitFrom(s, 1, <<>>)

\* value.replace(/\n$/, "")
StripFinalNl(s) ==
  IF Len(s) > 0 /\ s[Len(s)] = NL THEN SubSeq(s, 1, Len(s) - 1) ELSE s

(***************************************************************************)
(* jsdiff: the edit-script search shared by diffLines, diffWords and       *)
(* diffArrays.  Tokens are compared through keys (the token itself, or the *)
(* trimmed token for diffWords).  Positions are JavaScript's: oldPos is    *)
(* the 0-based index of the last old token consumed, -1 at the start.      *)
(***************************************************************************)
NoPath == [def |-> FALSE, oldPos |-> -1, comps |-> <<>>]

\* addToPath: one more inserted or deleted token on a path
AddToPath(path, added, removed, oldPosInc) ==
  LET cs == path.comps
      n  == Len(cs)
  IN IF n > 0 /\ cs[n].added = added /\ cs[n].removed = removed
     THEN [def |-> TRUE, oldPos |-> path.oldPos + oldPosInc,
           comps |-> [cs EXCEPT ![n].count = @ + 1]]
     ELSE [def |-> TRUE, oldPos |-> path.oldPos + oldPosInc,
           comps |-> Append(cs, [count |-> 1, added |-> added, removed |-> removed])]

\* the while loop of extractCommon: how far the diagonal runs
RECURSIVE CommonCount(_, _, _, _)
CommonCount(oldKeys, newKeys, oldPos, newPos) ==
  IF newPos + 1 < Len(newKeys) /\ oldPos + 1 < Len(oldKeys)
     /\ oldKeys[oldPos + 2] = newKeys[newPos + 2]
  THEN 1 + CommonCount(oldKeys, newKeys, oldPos + 1, newPos + 1)
  ELSE 0

\* extractCommon: follow the diagonal, record the common run on the path
ExtractCommon(basePath, newKeys, oldKeys, diagonalPath) ==
  LET c == CommonCount(oldKeys, newKeys, basePath.oldPos,
                       basePath.oldPos - diagonalPath)
  IN [def |-> TRUE, oldPos |-> basePath.oldPos + c,
      comps |-> IF c > 0
                THEN Append(basePath.comps,
                            [count |-> c, added |-> FALSE, removed |-> FALSE])
                ELSE basePath.comps]

\* execEditLength, one diagonal after the other, and the while loop around it.
\* The result is [found, comps]; found is FALSE when the loop ends without a
\* path (the function then returns undefined).
RECURSIVE ExecEditLength(_, _, _, _, _, _, _)
ExecEditLength(oldKeys, newKeys, editLength, diagonalPath, bestPath, minD, maxD) ==
  LET oldLen == Len(oldKeys)
      newLen == Len(newKeys)
  IN
  IF editLength > oldLen + newLen THEN [found |-> FALSE, comps |-> <<>>]
  ELSE IF diagonalPath > Min(maxD, editLength)
  THEN ExecEditLength(oldKeys, newKeys, editLength + 1,
                      Max(minD, -(editLength + 1)), bestPath, minD, maxD)
  ELSE
    LET removePath == bestPath[diagonalPath - 1]
        addPath    == bestPath[diagonalPath + 1]
        cleared    == IF removePath.def
                      THEN [bestPath EXCEPT ![diagonalPath - 1] = NoPath]
                      ELSE bestPath
        addPathNewPos == addPath.oldPos - diagonalPath
        canAdd     == addPath.def /\ 0 <= addPathNewPos /\ addPathNewPos < newLen
        canRemove  == removePath.def /\ removePath.oldPos + 1 < oldLen
    IN
    IF ~canAdd /\ ~canRemove
    THEN ExecEditLength(oldKeys, newKeys, editLength, diagonalPath + 2,
                        [cleared EXCEPT ![diagonalPath] = NoPath], minD, maxD)
    ELSE
      LET chosen   == IF ~canRemove \/ (canAdd /\ removePath.oldPos < addPath.oldPos)
                      THEN AddToPath(addPath, TRUE, FALSE, 0)
                      ELSE AddToPath(removePath, FALSE, TRUE, 1)
          basePath == ExtractCommon(chosen, newKeys, oldKeys, diagonalPath)
          newPos   == basePath.oldPos - diagonalPath
      IN
      IF basePath.oldPos + 1 >= oldLen /\ newPos + 1 >= newLen
      THEN [found |-> TRUE, comps |-> basePath.comps]
      ELSE ExecEditLength(oldKeys, newKeys, editLength, diagonalPath + 2,
             [cleared EXCEPT ![diagonalPath] = basePath],
             IF newPos + 1 >= newLen THEN Max(minD, diagonalPath + 1) ELSE minD,
             IF basePath.oldPos + 1 >= oldLen THEN Min(maxD, diagonalPath - 1) ELSE maxD)

\* diffWithOptionsObj: the components (count, added, removed) of the edit script
EditScript(oldKeys, newKeys) ==
  LET oldLen == Len(oldKeys)
      newLen == Len(newKeys)
      far    == oldLen + newLen + 2
      seed   == ExtractCommon([def |-> TRUE, oldPos |-> -1, comps |-> <<>>],
                              newKeys, oldKeys, 0)
  IN IF seed.oldPos + 1 >= oldLen /\ seed.oldPos + 1 >= newLen
     THEN [found |-> TRUE, comps |-> seed.comps]
     ELSE ExecEditLength(oldKeys, newKeys, 1, -1,
                         [d \in (-far)..far |-> IF d = 0 THEN seed ELSE NoPath],
                         -far, far)

\* buildValues: the tokens each component covers; common and inserted
\* components take the new text's tokens, deleted ones the old text's
RECURSIVE BuildValues(_, _, _, _, _)
BuildValues(comps, newTokens, oldTokens, newPos, oldPos) ==
  IF comps = <<>> THEN <<>>
  ELSE LET c == Head(comps) IN
    IF ~c.removed
    THEN <<[added |-> c.added, removed |-> FALSE, count |-> c.count,
            tokens |-> SubSeq(newTokens, newPos + 1, newPos + c.count)]>>
         \o BuildValues(Tail(comps), newTokens, oldTokens, newPos + c.count,
                        IF c.added THEN oldPos ELSE oldPos + c.count)
    ELSE <<[added |-> FALSE, removed |-> TRUE, count |-> c.count,
            tokens |-> SubSeq(oldTokens, oldPos + 1, oldPos + c.count)]>>
         \o BuildValues(Tail(comps), newTokens, oldTokens, newPos, oldPos + c.count)

(***************************************************************************)
(* jsdiff: diffLines.                                                      *)
(***************************************************************************)
\* lineDiff.tokenize followed by removeEmpty: value.split(/(\n|\r\n)/), the
\* final empty piece dropped, every line merged with the newline after it
LineTokens(value) ==
  LET ls == SplitNl(value)
      n  == Len(ls)
      withNl == [i \in 1..n |-> IF i < n THEN Append(ls[i], NL) ELSE ls[i]]
  IN SelectSeq(withNl, LAMBDA t : t # <<>>)

\* diffLines(oldStr, newStr): change objects [value, added, removed]
diffLines(oldStr, newStr) ==
  LET oldTokens == LineTokens(oldStr)
      newTokens == LineTokens(newStr)
      es        == EditScript(oldTokens, newTokens)
      vals      == BuildValues(es.comps, newTokens, oldTokens, 0, 0)
  IN [found |-> es.found,
      parts |-> [i \in 1..Len(vals) |->
                   [value |-> Concat(vals[i].tokens),
                    added |-> vals[i].added, removed |-> vals[i].removed]]]

(***************************************************************************)
(* jsdiff: diffWords.                                                      *)
(***************************************************************************)
\* s.match(/^\s*/)[0] and s.match(/\s*$/)[0]
RECURSIVE LeadingWsLen(_, _)
LeadingWsLen(s, i) ==
  IF i <= Len(s) /\ IsSpace(s[i]) THEN LeadingWsLen(s, i + 1) ELSE i - 1

RECURSIVE TrailingWsLen(_, _)
TrailingWsLen(s, n) ==
  IF n < Len(s) /\ IsSpace(s[Len(s) - n]) THEN TrailingWsLen(s, n + 1) ELSE n

LeadingWs(s)  == SubSeq(s, 1, LeadingWsLen(s, 1))
TrailingWs(s) == SubSeq(s, Len(s) - TrailingWsLen(s, 0) + 1, Len(s))

\* s.replace(/^\s+/, "")
StripLeadingWs(s) == SubSeq(s, LeadingWsLen(s, 1) + 1, Len(s))

\* String.prototype.trim
Trim(s) ==
  LET t == StripLeadingWs(s) IN SubSeq(t, 1, Len(t) - TrailingWsLen(t, 0))

\* /\s/.test(s)
HasSpace(s) == \E i \in 1..Len(s) : IsSpace(s[i])

\* the end of the run of word characters, or of whitespace, that starts at i
RECURSIVE WordRunEnd(_, _)
WordRunEnd(s, i) ==
  IF i < Len(s) /\ IsWordChar(s[i + 1]) THEN WordRunEnd(s, i + 1) ELSE i

RECURSIVE SpaceRunEnd(_, _)
SpaceRunEnd(s, i) ==
  IF i < Len(s) /\ IsSpace(s[i + 1]) THEN SpaceRunEnd(s, i + 1) ELSE i

\* value.match(/[word]+|\s+|[^word]/ug): runs of word characters, runs of
\* whitespace, and every other character on its own
RECURSIVE WordParts(_, _)
WordParts(s, i) ==
  IF i > Len(s) THEN <<>>
  ELSE LET j == IF IsWordChar(s[i]) THEN WordRunEnd(s, i)
                ELSE IF IsSpace(s[i]) THEN SpaceRunEnd(s, i)
                ELSE i
       IN <<SubSeq(s, i, j)>> \o WordParts(s, j + 1)

\* wordDiff.tokenize: every word or punctuation mark together with the
\* whitespace on both of its sides
RECURSIVE WordTokensFrom(_, _, _)
WordTokensFrom(parts, i, tokens) ==
  IF i > Len(parts) THEN tokens
  ELSE
    LET part == parts[i]
        n    == Len(tokens)
    IN
    IF HasSpace(part)
    THEN WordTokensFrom(parts, i + 1,
           IF i = 1 THEN Append(tokens, part)
           ELSE [tokens EXCEPT ![n] = @ \o part])
    ELSE IF i > 1 /\ HasSpace(parts[i - 1])
    THEN WordTokensFrom(parts, i + 1,
           IF tokens[n] = parts[i - 1]
           THEN [tokens EXCEPT ![n] = @ \o part]
           ELSE Append(tokens, parts[i - 1] \o part))
    ELSE WordTokensFrom(parts, i + 1, Append(tokens, part))

WordTokens(value) == WordTokensFrom(WordParts(value, 1), 1, <<>>)

\* wordDiff.join: the first token whole, the others without their leading
\* whitespace
WordJoin(tokens) ==
  Concat([i \in 1..Len(tokens) |->
            IF i = 1 THEN tokens[i] ELSE StripLeadingWs(tokens[i])])

\* util/string.js
RECURSIVE CommonPrefixLen(_, _, _)
CommonPrefixLen(a, b, i) ==
  IF i < Len(a) /\ i < Len(b) /\ a[i + 1] = b[i + 1]
  THEN CommonPrefixLen(a, b, i + 1) ELSE i

RECURSIVE CommonSuffixLen(_, _, _)
CommonSuffixLen(a, b, i) ==
  IF i < Len(a) /\ i < Len(b) /\ a[Len(a) - i] = b[Len(b) - i]
  THEN CommonSuffixLen(a, b, i + 1) ELSE i

longestCommonPrefix(a, b) == SubSeq(a, 1, CommonPrefixLen(a, b, 0))
longestCommonSuffix(a, b) == SubSeq(a, Len(a) - CommonSuffixLen(a, b, 0) + 1, Len(a))

HasPrefix(s, p) == Len(p) <= Len(s) /\ SubSeq(s, 1, Len(p)) = p
HasSuffix(s, p) == Len(p) <= Len(s) /\ SubSeq(s, Len(s) - Len(p) + 1, Len(s)) = p

\* replacePrefix / replaceSuffix throw when the string does not start / end
\* with the part to replace; ThrewStr stands for the exception
ThrewStr == <<"Error">>

replacePrefix(s, oldPrefix, newPrefix) ==
  IF s = ThrewStr \/ ~HasPrefix(s, oldPrefix) THEN ThrewStr
  ELSE newPrefix \o SubSeq(s, Len(oldPrefix) + 1, Len(s))

replaceSuffix(s, oldSuffix, newSuffix) ==
  IF s = ThrewStr THEN ThrewStr
  ELSE IF oldSuffix = <<>> THEN s \o newSuffix
  ELSE IF ~HasSuffix(s, oldSuffix) THEN ThrewStr
  ELSE SubSeq(s, 1, Len(s) - Len(oldSuffix)) \o newSuffix

removePrefix(s, oldPrefix) == replacePrefix(s, oldPrefix, <<>>)
removeSuffix(s, oldSuffix) == replaceSuffix(s, oldSuffix, <<>>)

\* maximumOverlap: the longest end of a that is a start of b
maximumOverlap(a, b) ==
  LET ks == {k \in 0..Min(Len(a), Len(b)) :
               SubSeq(a, Len(a) - k + 1, Len(a)) = SubSeq(b, 1, k)}
      k  == CHOOSE x \in ks : \A y \in ks : y <= x
  IN SubSeq(b, 1, k)

\* dedupeWhitespaceInChangeObjects on the change objects at the indices
\* startKeep, deletion, insertion, endKeep of cs (0: there is none)
dedupeWhitespaceInChangeObjects(cs, startKeep, deletion, insertion, endKeep) ==
  IF deletion # 0 /\ insertion # 0 THEN
    LET oldWsPrefix == LeadingWs(cs[deletion].value)
        oldWsSuffix == TrailingWs(cs[deletion].value)
        newWsPrefix == LeadingWs(cs[insertion].value)
        newWsSuffix == TrailingWs(cs[insertion].value)
        commonWsPrefix == longestCommonPrefix(oldWsPrefix, newWsPrefix)
        c1 == IF startKeep = 0 THEN cs
              ELSE [cs EXCEPT
                     ![startKeep].value = replaceSuffix(@, newWsPrefix, commonWsPrefix),
                     ![deletion].value  = removePrefix(@, commonWsPrefix),
                     ![insertion].value = removePrefix(@, commonWsPrefix)]
        commonWsSuffix == longestCommonSuffix(oldWsSuffix, newWsSuffix)
    IN IF endKeep = 0 THEN c1
       ELSE [c1 EXCEPT
              ![endKeep].value   = replacePrefix(@, newWsSuffix, commonWsSuffix),
              ![deletion].value  = removeSuffix(@, commonWsSuffix),
              ![insertion].value = removeSuffix(@, commonWsSuffix)]
  ELSE IF insertion # 0 THEN
    LET c1 == IF startKeep = 0 THEN cs
              ELSE [cs EXCEPT ![insertion].value = StripLeadingWs(@)]
    IN IF endKeep = 0 THEN c1
       ELSE [c1 EXCEPT ![endKeep].value = StripLeadingWs(@)]
  ELSE IF startKeep # 0 /\ endKeep # 0 THEN
    LET newWsFull  == LeadingWs(cs[endKeep].value)
        delWsStart == LeadingWs(cs[deletion].value)
        delWsEnd   == TrailingWs(cs[deletion].value)
        newWsStart == longestCommonPrefix(newWsFull, delWsStart)
        del1       == removePrefix(cs[deletion].value, newWsStart)
        newWsEnd   == longestCommonSuffix(removePrefix(newWsFull, newWsStart), delWsEnd)
    IN [cs EXCEPT
         ![deletion].value  = removeSuffix(del1, newWsEnd),
         ![endKeep].value   = replacePrefix(@, newWsFull, newWsEnd),
         ![startKeep].value = replaceSuffix(@, newWsFull,
                                SubSeq(newWsFull, 1, Len(newWsFull) - Len(newWsEnd)))]
  ELSE IF endKeep # 0 THEN
    LET overlap == maximumOverlap(TrailingWs(cs[deletion].value),
                                  LeadingWs(cs[endKeep].value))
    IN [cs EXCEPT ![deletion].value = removeSuffix(@, overlap)]
  ELSE IF startKeep # 0 THEN
    LET overlap == maximumOverlap(TrailingWs(cs[startKeep].value),
                                  LeadingWs(cs[deletion].value))
    IN [cs EXCEPT ![deletion].value = removePrefix(@, overlap)]
  ELSE cs

\* wordDiff.postProcess: the forEach over the change objects and the call
\* after it
RECURSIVE WordPostProcess(_, _, _, _, _)
WordPostProcess(cs, i, lastKeep, insertion, deletion) ==
  IF i > Len(cs)
  THEN IF insertion # 0 \/ deletion # 0
       THEN dedupeWhitespaceInChangeObjects(cs, lastKeep, deletion, insertion, 0)
       ELSE cs
  ELSE IF cs[i].added THEN WordPostProcess(cs, i + 1, lastKeep, i, deletion)
  ELSE IF cs[i].removed THEN WordPostProcess(cs, i + 1, lastKeep, insertion, i)
  ELSE WordPostProcess(
         IF insertion # 0 \/ deletion # 0
         THEN dedupeWhitespaceInChangeObjects(cs, lastKeep, deletion, insertion, i)
         ELSE cs,
         i + 1, i, 0, 0)

\* diffWords(oldStr, newStr): tokens are equal when their trimmed texts are
diffWords(oldStr, newStr) ==
  LET oldTokens == WordTokens(oldStr)
      newTokens == WordTokens(newStr)
      es   == EditScript([i \in 1..Len(oldTokens) |-> Trim(oldTokens[i])],
                         [i \in 1..Len(newTokens) |-> Trim(newTokens[i])])
      vals == BuildValues(es.comps, newTokens, oldTokens, 0, 0)
      cs   == [i \in 1..Len(vals) |->
                 [value |-> WordJoin(vals[i].tokens),
                  added |-> vals[i].added, removed |-> vals[i].removed]]
      done == WordPostProcess(cs, 1, 0, 0, 0)
  IN [found  |-> es.found,
      threw  |-> \E i \in 1..Len(done) : done[i].value = ThrewStr,
      parts  |-> done]

(***************************************************************************)
(* diff-engine.js                                                          *)
(***************************************************************************)
\* the type computeDiff gives the lines of a change object
PartType(part) ==
  IF part.added THEN "added" ELSE IF part.removed THEN "removed" ELSE "unchanged"

\* result.push({type, lines: [line], oldLine, newLine}), as the three branches
\* of computeDiff write it
DiffEntry(part, line, oldLineNum, newLineNum) ==
  [type     |-> PartType(part),
   lines    |-> <<line>>,
   oldLine  |-> IF part.added THEN Null ELSE Some(oldLineNum),
   newLine  |-> IF part.removed THEN Null ELSE Some(newLineNum),
   wordDiffs |-> Null]

\* PartLines without the replace(/\n$/, ""): the newline that ends a change
\* object yields one more, empty, line
PartLinesKeepFinalNl(part) == SplitNl(part.value)

\* the lines of one change object: part.value.replace(/\n$/, "").split("\n")
PartLines(part) == SplitNl(StripFinalNl(part.value))

\* PartEntries without the increments of the two counters inside the loop
PartEntriesNoIncrement(part, oldLineNum, newLineNum) ==
  LET lines == SplitNl(StripFinalNl(part.value)) IN
  [j \in 1..Len(lines) |-> DiffEntry(part, lines[j], oldLineNum, newLineNum)]

\* PartEntries whose unchanged branch forgets newLineNum++ inside the loop
PartEntriesNewNotAdvanced(part, oldLineNum, newLineNum) ==
  LET lines == SplitNl(StripFinalNl(part.value)) IN
  [j \in 1..Len(lines) |->
     DiffEntry(part, lines[j],
               IF part.added THEN oldLineNum ELSE oldLineNum + j - 1,
               IF part.added THEN newLineNum + j - 1 ELSE newLineNum)]

\* PartEntries without the continue that ends the trailing-newline case: the
\* entries of the loop follow the entry of the special case
PartEntriesNoContinue(part, oldLineNum, newLineNum) ==
  LET lines == SplitNl(StripFinalNl(part.value))
      loop(o, n) ==
        [j \in 1..Len(lines) |->
           DiffEntry(part, lines[j],
                     IF part.added THEN o ELSE o + j - 1,
                     IF part.removed THEN n ELSE n + j - 1)]
  IN IF part.value = <<>>
        \/ (Len(lines) = 1 /\ lines[1] = <<>> /\ part.value = <<NL>>)
     THEN <<DiffEntry(part, <<>>, oldLineNum, newLineNum)>>
          \o loop(IF part.added THEN oldLineNum ELSE oldLineNum + 1,
                  IF part.removed THEN newLineNum ELSE newLineNum + 1)
     ELSE loop(oldLineNum, newLineNum)

\* the entries computeDiff pushes for one change object
PartEntries(part, oldLineNum, newLineNum) ==
  LET lines == PartLines(part) IN
  IF part.value = <<>>
     \/ (Len(lines) = 1 /\ lines[1] = <<>> /\ part.value = <<NL>>)
  THEN <<DiffEntry(part, <<>>, oldLineNum, newLineNum)>>
  ELSE [j \in 1..Len(lines) |->
          DiffEntry(part, lines[j],
                    IF part.added THEN oldLineNum ELSE oldLineNum + j - 1,
                    IF part.removed THEN newLineNum ELSE newLineNum + j - 1)]

\* the for loop of computeDiff over lineDiffs, with its two counters
RECURSIVE LineEntries(_, _, _, _)
LineEntries(lineDiffs, i, oldLineNum, newLineNum) ==
  IF i > Len(lineDiffs) THEN <<>>
  ELSE LET part == lineDiffs[i]
           es   == PartEntries(part, oldLineNum, newLineNum)
       IN es \o LineEntries(lineDiffs, i + 1,
                            IF part.added THEN oldLineNum ELSE oldLineNum + Len(es),
                            IF part.removed THEN newLineNum ELSE newLineNum + Len(es))

\* addWordLevelDiffs: the loop from index i on (1-based).  The value is
\* [threw, value]: threw when diffWords ended with an exception or without a
\* result, value the array otherwise.
RECURSIVE WordLevelFrom(_, _)
WordLevelFrom(diffResult, i) ==
  IF i > Len(diffResult) - 1 THEN [threw |-> FALSE, value |-> diffResult]
  ELSE IF diffResult[i].type = "removed" /\ diffResult[i + 1].type = "added"
  THEN LET oldLine   == diffResult[i].lines[1]
           newLine   == diffResult[i + 1].lines[1]
           wordDiffs == diffWords(oldLine, newLine)
       IN IF ~wordDiffs.found \/ wordDiffs.threw
          THEN [threw |-> TRUE, value |-> <<>>]
          ELSE WordLevelFrom([diffResult EXCEPT
                                ![i].wordDiffs     = Some(wordDiffs.parts),
                                ![i + 1].wordDiffs = Some(wordDiffs.parts)],
                             i + 1)
  ELSE WordLevelFrom(diffResult, i + 1)

\* addWordLevelDiffs that forgets diffResult[i + 1].wordDiffs = wordDiffs
RECURSIVE WordLevelRemovedOnly(_, _)
WordLevelRemovedOnly(diffResult, i) ==
  IF i > Len(diffResult) - 1 THEN [threw |-> FALSE, value |-> diffResult]
  ELSE IF diffResult[i].type = "removed" /\ diffResult[i + 1].type = "added"
  THEN LET wordDiffs == diffWords(diffResult[i].lines[1], diffResult[i + 1].lines[1])
       IN WordLevelRemovedOnly(
            [diffResult EXCEPT ![i].wordDiffs = Some(wordDiffs.parts)], i + 1)
  ELSE WordLevelRemovedOnly(diffResult, i + 1)

addWordLevelDiffsRemovedOnly(diffResult) == WordLevelRemovedOnly(diffResult, 1)

\* addWordLevelDiffs that pairs the first line of a removed run with the first
\* added line after the run
RECURSIVE FirstAddedAfter(_, _)
FirstAddedAfter(diffResult, i) ==
  IF i > Len(diffResult) THEN 0
  ELSE IF diffResult[i].type = "removed" THEN FirstAddedAfter(diffResult, i + 1)
  ELSE IF diffResult[i].type = "added" THEN i
  ELSE 0

RECURSIVE WordLevelFirstWithFirst(_, _)
WordLevelFirstWithFirst(diffResult, i) ==
  IF i > Len(diffResult) - 1 THEN [threw |-> FALSE, value |-> diffResult]
  ELSE LET a == FirstAddedAfter(diffResult, i + 1) IN
    IF diffResult[i].type = "removed" /\ a # 0
       /\ (i = 1 \/ diffResult[i - 1].type # "removed")
    THEN LET wordDiffs == diffWords(diffResult[i].lines[1], diffResult[a].lines[1])
         IN WordLevelFirstWithFirst(
              [diffResult EXCEPT ![i].wordDiffs = Some(wordDiffs.parts),
                                 ![a].wordDiffs = Some(wordDiffs.parts)], i + 1)
    ELSE WordLevelFirstWithFirst(diffResult, i + 1)

addWordLevelDiffsFirstWithFirst(diffResult) == WordLevelFirstWithFirst(diffResult, 1)

addWordLevelDiffs(diffResult) == WordLevelFrom(diffResult, 1)

\* computeDiff(oldText, newText): [threw, value]
computeDiff(oldStr, newStr) ==
  LET lineDiffs == diffLines(oldStr, newStr)
  IN IF ~lineDiffs.found THEN [threw |-> TRUE, value |-> <<>>]
     ELSE addWordLevelDiffs(LineEntries(lineDiffs.parts, 1, 1, 1))

(***************************************************************************)
(* markdown-diff.js: splitIntoBlocks                                       *)
(***************************************************************************)
\* the length of the run of character c at the start of line
RECURSIVE RunLen(_, _, _)
RunLen(line, c, n) ==
  IF n < Len(line) /\ line[n + 1] = c THEN RunLen(line, c, n + 1) ELSE n

\* line.match(/^(B{3,}|~{3,})/), B the backtick: the matched run, or Null
FenceMatch(line) ==
  IF RunLen(line, Backtick, 0) >= 3 THEN Some(SubSeq(line, 1, RunLen(line, Backtick, 0)))
  ELSE IF RunLen(line, "~", 0) >= 3 THEN Some(SubSeq(line, 1, RunLen(line, "~", 0)))
  ELSE Null

\* CloseRegexTest with the quantifier {3,} in place of {fenceLen,}
CloseRegexTestAnyLength(line, fenceChar, fenceLen) ==
  LET c == IF fenceChar = Backtick THEN Backtick ELSE "~"
      m == RunLen(line, c, 0)
  IN m >= 3 /\ \A k \in (m + 1)..Len(line) : IsSpace(line[k])

\* CloseRegexTest with \s* between ^ and the run: leading whitespace allowed
CloseRegexTestLeadingWs(line, fenceChar, fenceLen) ==
  LET c    == IF fenceChar = Backtick THEN Backtick ELSE "~"
      rest == StripLeadingWs(line)
      m    == RunLen(rest, c, 0)
  IN m >= fenceLen /\ \A k \in (m + 1)..Len(rest) : IsSpace(rest[k])

\* closeRegex.test(line), closeRegex = ^c{fenceLen,}\s*$ with c the backtick
\* when fenceChar is the backtick and the tilde otherwise
CloseRegexTest(line, fenceChar, fenceLen) ==
  LET c == IF fenceChar = Backtick THEN Backtick ELSE "~"
      m == RunLen(line, c, 0)
  IN m >= fenceLen /\ \A k \in (m + 1)..Len(line) : IsSpace(line[k])

\* line.trim() === ""
IsBlankLine(line) == Trim(line) = <<>>

\* /^\|/.test(line) and /^>/.test(line)
IsTableRow(line)   == Len(line) > 0 /\ line[1] = "|"
IsBlockQuote(line) == Len(line) > 0 /\ line[1] = ">"

IsDigit(c) == c \in {"1", "2"}

\* the end of the run of digits that starts at i (i - 1 when there is none)
RECURSIVE DigitRunEnd(_, _)
DigitRunEnd(line, i) ==
  IF i <= Len(line) /\ IsDigit(line[i]) THEN DigitRunEnd(line, i + 1) ELSE i - 1

\* /^(\s*[-*+]|\s*\d+[.)]\s)/.test(line)
IsListItem(line) ==
  LET w == LeadingWsLen(line, 1)
      d == DigitRunEnd(line, w + 1)
  IN \/ w < Len(line) /\ line[w + 1] \in {"-", "*", "+"}
     \/ /\ d > w
        /\ d + 2 <= Len(line)
        /\ line[d + 1] \in {".", ")"}
        /\ IsSpace(line[d + 2])

\* /^\s+\S/.test(line)
IsIndented(line) ==
  LET w == LeadingWsLen(line, 1) IN w >= 1 /\ w < Len(line)

\* the state of the loop of splitIntoBlocks before any line
SplitStart ==
  [blocks |-> <<>>, current |-> <<>>, inFence |-> FALSE,
   fenceChar |-> <<>>, fenceLen |-> 0]

\* flush() without current = []
flushKeepCurrent(st) ==
  IF Len(st.current) > 0
  THEN [st EXCEPT !.blocks = Append(@, JoinNl(st.current))]
  ELSE st

\* flush()
flush(st) ==
  IF Len(st.current) > 0
  THEN [st EXCEPT !.blocks = Append(@, JoinNl(st.current)), !.current = <<>>]
  ELSE st

\* current.push(line)
Push(st, line) == [st EXCEPT !.current = Append(@, line)]

\* StartsNewBlock without the two block-quote conditions of the type-change
\* test
StartsNewBlockTableOnly(st, line) ==
  /\ Len(st.current) > 0
  /\ LET prevLine == st.current[Len(st.current)]
     IN IsTableRow(line) # IsTableRow(prevLine)

\* lines 78-111: with a block open, whether the line is pushed after a
\* flush (TRUE) or onto the open block (FALSE)
StartsNewBlock(st, line) ==
  /\ Len(st.current) > 0
  /\ LET prevLine         == st.current[Len(st.current)]
         isTableRow       == IsTableRow(line)
         isBlockQuote     == IsBlockQuote(line)
         isListItem       == IsListItem(line)
         isIndented       == IsIndented(line)
         prevIsTable      == IsTableRow(prevLine)
         prevIsBlockQuote == IsBlockQuote(prevLine)
         prevIsList       == \/ IsListItem(prevLine)
                             \/ (IsIndented(prevLine) /\ Len(st.current) >= 2)
     IN IF isTableRow /\ prevIsTable THEN FALSE
        ELSE IF isBlockQuote /\ prevIsBlockQuote THEN FALSE
        ELSE IF prevIsList /\ (isListItem \/ isIndented) THEN FALSE
        ELSE \/ (isTableRow /\ ~prevIsTable)
             \/ (isBlockQuote /\ ~prevIsBlockQuote)
             \/ (prevIsTable /\ ~isTableRow)
             \/ (prevIsBlockQuote /\ ~isBlockQuote)

\* one pass of the for loop of splitIntoBlocks, on one line
SplitLine(st, line) ==
  IF ~st.inFence /\ FenceMatch(line) # Null
  THEN LET run == FenceMatch(line)[1]
       IN Push([flush(st) EXCEPT !.inFence = TRUE,
                                 !.fenceChar = <<run[1]>>,
                                 !.fenceLen = Len(run)], line)
  ELSE IF st.inFence
  THEN IF CloseRegexTest(line, st.fenceChar[1], st.fenceLen)
       THEN flush([Push(st, line) EXCEPT !.inFence = FALSE,
                                         !.fenceChar = <<>>,
                                         !.fenceLen = 0])
       ELSE Push(st, line)
  ELSE IF IsBlankLine(line) THEN flush(st)
  ELSE IF StartsNewBlock(st, line) THEN Push(flush(st), line)
  ELSE Push(st, line)

\* the for loop over the lines from index i on
RECURSIVE SplitLoop(_, _, _)
SplitLoop(st, lines, i) ==
  IF i > Len(lines) THEN st
  ELSE SplitLoop(SplitLine(st, lines[i]), lines, i + 1)

\* splitIntoBlocks without the flush after the loop
splitIntoBlocksNoFinalFlush(t) == SplitLoop(SplitStart, SplitNl(t), 1).blocks

\* splitIntoBlocks(text): the blocks, each a string
splitIntoBlocks(t) == flush(SplitLoop(SplitStart, SplitNl(t), 1)).blocks

(***************************************************************************)
(* markdown-diff.js: renderMarkdownDiff, renderMarkdownDiffInline          *)
(***************************************************************************)
\* jsdiff: diffArrays(oldArr, newArr): change objects whose value is the
\* array of the elements covered; elements are compared with ===
diffArrays(oldArr, newArr) ==
  LET es   == EditScript(oldArr, newArr)
      vals == BuildValues(es.comps, newArr, oldArr, 0, 0)
  IN [found |-> es.found,
      parts |-> [i \in 1..Len(vals) |->
                   [value |-> vals[i].tokens,
                    added |-> vals[i].added, removed |-> vals[i].removed]]]

\* renderMarkdown(block) of markdown-engine.js: the HTML of one block, a
\* string that is not the block itself and that differs for different blocks
renderMarkdown(block) == <<"<md>">> \o block \o <<"</md>">>

\* an HTML string is the sequence of its top-level <div> elements, each with
\* its class, its content and (for the inline view) the <div>s inside it
Div(class, body) == [class |-> class, body |-> body, children |-> <<>>]

\* '<div class="md-diff-empty">No changes</div>'
NoChanges == <<Div("md-diff-empty", <<"No changes">>)>>

\* PartClass that tests part.removed only
PartClassRemovedOnly(part) ==
  IF part.removed THEN "md-diff-removed" ELSE "md-diff-unchanged"

\* the class of the container of a block of a change object
PartClass(part) ==
  IF part.added THEN "md-diff-added"
  ELSE IF part.removed THEN "md-diff-removed"
  ELSE "md-diff-unchanged"

\* the containers of the blocks of one change object, in order
PartDivs(part, class) ==
  [j \in 1..Len(part.value) |-> Div(class, renderMarkdown(part.value[j]))]

\* renderMarkdownDiff without the test oldText === newText
renderMarkdownDiffNoShortcut(oldStr, newStr) ==
  LET blockDiffs == diffArrays(splitIntoBlocks(oldStr), splitIntoBlocks(newStr))
  IN [threw |-> ~blockDiffs.found,
      value |-> Concat([i \in 1..Len(blockDiffs.parts) |->
                  PartDivs(blockDiffs.parts[i], PartClass(blockDiffs.parts[i]))])]

\* renderMarkdownDiff that compares the block sequences instead of the
\* strings before it returns "No changes"
renderMarkdownDiffBlocksShortcut(oldStr, newStr) ==
  IF splitIntoBlocks(oldStr) = splitIntoBlocks(newStr)
  THEN [threw |-> FALSE, value |-> NoChanges]
  ELSE renderMarkdownDiffNoShortcut(oldStr, newStr)

\* renderMarkdownDiff(oldText, newText): [threw, value]
renderMarkdownDiff(oldStr, newStr) ==
  IF oldStr = newStr THEN [threw |-> FALSE, value |-> NoChanges]
  ELSE
    LET oldBlocks  == splitIntoBlocks(oldStr)
        newBlocks  == splitIntoBlocks(newStr)
        blockDiffs == diffArrays(oldBlocks, newBlocks)
    IN IF ~blockDiffs.found THEN [threw |-> TRUE, value |-> <<>>]
       ELSE [threw |-> FALSE,
             value |-> Concat([i \in 1..Len(blockDiffs.parts) |->
                         PartDivs(blockDiffs.parts[i],
                                  PartClass(blockDiffs.parts[i]))])]

\* the loop of a replacement pair without the interleaving: the removed
\* blocks, then the added blocks
InterleaveSequential(removedValue, addedValue, j) ==
  [p \in 1..Len(removedValue) |->
     Div("md-diff-removed", renderMarkdown(removedValue[p]))]
  \o [p \in 1..Len(addedValue) |->
        Div("md-diff-added", renderMarkdown(addedValue[p]))]

\* the interleaving loop of renderMarkdownDiffInline, from j (0-based) on
RECURSIVE Interleave(_, _, _)
Interleave(removedValue, addedValue, j) ==
  IF j >= Max(Len(removedValue), Len(addedValue)) THEN <<>>
  ELSE (IF j < Len(removedValue)
        THEN <<Div("md-diff-removed", renderMarkdown(removedValue[j + 1]))>>
        ELSE <<>>)
       \o (IF j < Len(addedValue)
           THEN <<Div("md-diff-added", renderMarkdown(addedValue[j + 1]))>>
           ELSE <<>>)
       \o Interleave(removedValue, addedValue, j + 1)

\* the for loop of renderMarkdownDiffInline over blockDiffs, from i (1-based)
RECURSIVE InlineDivs(_, _)
InlineDivs(blockDiffs, i) ==
  IF i > Len(blockDiffs) THEN <<>>
  ELSE LET part == blockDiffs[i] IN
    IF ~part.added /\ ~part.removed
    THEN PartDivs(part, "md-diff-unchanged") \o InlineDivs(blockDiffs, i + 1)
    ELSE IF part.removed
    THEN IF i < Len(blockDiffs) /\ blockDiffs[i + 1].added
         THEN Interleave(part.value, blockDiffs[i + 1].value, 0)
              \o InlineDivs(blockDiffs, i + 2)
         ELSE PartDivs(part, "md-diff-removed") \o InlineDivs(blockDiffs, i + 1)
    ELSE PartDivs(part, "md-diff-added") \o InlineDivs(blockDiffs, i + 1)

\* renderMarkdownDiffInline reading blockDiffs[i + 1].added without the test
\* that blockDiffs[i + 1] exists: a TypeError when the last part is removed
renderMarkdownDiffInlineNoNextGuard(oldStr, newStr) ==
  IF oldStr = newStr THEN [threw |-> FALSE, value |-> NoChanges]
  ELSE
    LET blockDiffs == diffArrays(splitIntoBlocks(oldStr), splitIntoBlocks(newStr))
        n          == Len(blockDiffs.parts)
    IN IF ~blockDiffs.found \/ (n > 0 /\ blockDiffs.parts[n].removed)
       THEN [threw |-> TRUE, value |-> <<>>]
       ELSE [threw |-> FALSE,
             value |-> <<[class |-> "md-diff-inline-view", body |-> <<>>,
                          children |-> InlineDivs(blockDiffs.parts, 1)]>>]

\* renderMarkdownDiffInline(oldText, newText): [threw, value]
renderMarkdownDiffInline(oldStr, newStr) ==
  IF oldStr = newStr THEN [threw |-> FALSE, value |-> NoChanges]
  ELSE
    LET oldBlocks  == splitIntoBlocks(oldStr)
        newBlocks  == splitIntoBlocks(newStr)
        blockDiffs == diffArrays(oldBlocks, newBlocks)
    IN IF ~blockDiffs.found THEN [threw |-> TRUE, value |-> <<>>]
       ELSE [threw |-> FALSE,
             value |-> <<[class |-> "md-diff-inline-view", body |-> <<>>,
                          children |-> InlineDivs(blockDiffs.parts, 1)]>>]

(***************************************************************************)
(* The inputs of the model: texts of at most MaxLines lines, each line     *)
(* taken from a vocabulary.                                                *)
(***************************************************************************)
\* the texts of 1..n lines over a set of lines
TextsOver(vocab, n) ==
  {JoinNl(ls) : ls \in UNION {[1..k -> vocab] : k \in 1..n}}

\* lines for the line diff: the empty line, one word, two words, and the two
\* words in the other order
DiffLineVocab == {<<>>, <<"a">>, <<"a", " ", "b">>, <<"b", " ", "a">>}

DiffTexts == TextsOver(DiffLineVocab, MaxLines)

\* lines for splitIntoBlocks: fence lines of both characters and of two
\* lengths, a blank and a whitespace-only line, a paragraph line, a table row,
\* a quote line, a list item and an indented line
MdLineVocab ==
  { <<Backtick, Backtick, Backtick>>, <<Backtick, Backtick, Backtick, Backtick>>, <<"~", "~", "~">>,
    <<>>, <<" ">>, <<"a">>, <<"|", "a">>, <<">", "a">>,
    <<"-", " ", "a">>, <<" ", "a">> }

MdTexts == TextsOver(MdLineVocab, MaxMdLines)

\* lines for the block diff: a blank line, two paragraph lines and a table
\* row (which is a block of its own without a blank line around it)
BlockLineVocab == {<<>>, <<"a">>, <<"b">>, <<"|", "a">>}

BlockTexts == TextsOver(BlockLineVocab, MaxBlockLines)

\* lines for the fences: openers of four and of three backticks and of four
\* tildes, a run of four followed by text, by a space, and after a space,
\* and a paragraph line
FenceLineVocab ==
  {<<Backtick, Backtick, Backtick, Backtick>>,
   <<Backtick, Backtick, Backtick>>,
   <<"~", "~", "~", "~">>,
   <<Backtick, Backtick, Backtick, Backtick, "a">>,
   <<Backtick, Backtick, Backtick, Backtick, " ">>,
   <<" ", Backtick, Backtick, Backtick, Backtick>>,
   <<"a">>}

FenceTexts == TextsOver(FenceLineVocab, MaxFenceLines)

\* lines for the calls of all the functions on the same texts: the empty
\* line (the empty text, texts of newlines only), a single character, words
\* with single, double, leading and trailing spaces, and a fence opener
\* (a text with it and no second one is an unterminated fence)
AnyLineVocab ==
  {<<>>, <<"a">>, <<"b", " ", "a">>, <<"b", " ", " ", "a">>, <<" ", "a", " ">>,
   <<Backtick, Backtick, Backtick>>}

AnyTexts == TextsOver(AnyLineVocab, MaxAnyLines)

(***************************************************************************)
(* State: the arguments of a call, which function was called, and what it  *)
(* returned.                                                               *)
(***************************************************************************)
VARIABLES
  oldText,     \* first argument of computeDiff / renderMarkdownDiff
  newText,     \* second argument
  called,      \* the function that has run, "none" before the call
  raised,      \* whether the call ended with an exception
  diffResult,  \* the array computeDiff returned
  text,        \* the argument of splitIntoBlocks
  blocks,      \* the array splitIntoBlocks returned
  html,        \* the HTML renderMarkdownDiff(Inline) returned
  \* renderer process (index.js)
  isDirty,          \* let isDirty
  currentFilePath,  \* let currentFilePath: Null or Some(path)
  originalContent,  \* let originalContent
  suppressDirty,    \* let suppressDirty
  doc,              \* the editor content, getContent()
  overlay,          \* Some(closeState) while #close-dialog-overlay is in the DOM
  fileOps,          \* the runs of newFile, openFile, saveFile, saveFileAs,
                    \* loadFileByPath, each at an await
  autosaveMinutes,  \* let autosaveMinutes of the renderer
  autosaveTimer,    \* let autosaveTimer: Null or Some(timer)
  timers,           \* the setInterval timers of startAutosaveTimer not yet cleared
  \* main process (main.js)
  windowForceQuit,     \* let windowForceQuit of the window
  forceQuit,           \* let forceQuit
  closeDialogResolve,  \* let closeDialogResolve: Null or Some(handler)
  closeHandlers,       \* the runs of the async close handler, each at an await
  winOpen,             \* the BrowserWindow exists
  mainAutosaveMinutes, \* let autosaveMinutes of autosave-manager.js
  \* messages between the two processes, in sending order
  showDialogMsgs,      \* "close:showDialog", main to renderer
  dialogResultMsgs,    \* "close:dialogResult", renderer to main
  ipc,                 \* ipcRenderer.invoke calls main has not yet received
  \* files
  disk,         \* the user's files: path -> Null when absent, Some(content)
  backupFile,   \* autosave-<pid>.json of this process: Null or Some(data)
  sessionFile,  \* session-<pid>.json of this process: Null or Some(data)
  \* several instances (processes) with one userData directory
  running,      \* the pids of the running instances
  elevated,     \* the running instances that only an elevated process may signal
  userData,     \* the files session-<pid>.json and autosave-<pid>.json
  offered,      \* per instance, the files its scans returned and it still offers
  lastCall,     \* the call that was made last: the instance and the function
  recovery,     \* the recovery dialog of an instance: Null or Some(dialog)
  \* the panes of the window (pane-manager.js, preview-pane.js, diff-pane.js)
  view          \* the pane state, the resize handles, and what the preview
                \* and diff panes hold and show

diffVars == <<oldText, newText, called, raised, diffResult, text, blocks, html>>

docVars == <<isDirty, currentFilePath, originalContent, suppressDirty, doc>>

closeVars == <<overlay, windowForceQuit, forceQuit, closeDialogResolve,
               closeHandlers, winOpen, showDialogMsgs, dialogResultMsgs>>

opVars == <<fileOps, ipc>>

fileVars == <<disk, backupFile, sessionFile>>

autosaveVars == <<autosaveMinutes, autosaveTimer, timers, mainAutosaveMinutes>>

appVars == <<docVars, closeVars, opVars, fileVars, autosaveVars>>

instanceVars == <<running, elevated, userData, offered, lastCall, recovery>>

vars == <<diffVars, appVars, instanceVars, view>>

\* no instance is looked at: the state of the instances' variables in the
\* specifications of one window and of the diff functions
InstancesIdle ==
  /\ running = {}
  /\ elevated = {}
  /\ userData = <<>>
  /\ offered = <<>>
  /\ lastCall = <<>>
  /\ recovery = <<>>

\* the window not opened: the state of its variables in the specifications
\* of the diff functions and of the instances, which never change them
AppIdleWindow ==
  /\ isDirty = FALSE
  /\ currentFilePath = <<>>
  /\ originalContent = 0
  /\ suppressDirty = FALSE
  /\ doc = 0
  /\ overlay = <<>>
  /\ fileOps = <<>>
  /\ windowForceQuit = FALSE
  /\ forceQuit = FALSE
  /\ closeDialogResolve = <<>>
  /\ closeHandlers = <<>>
  /\ winOpen = FALSE
  /\ showDialogMsgs = <<>>
  /\ dialogResultMsgs = <<>>
  /\ ipc = <<>>
  /\ disk = <<>>
  /\ backupFile = <<>>
  /\ sessionFile = <<>>
  /\ autosaveMinutes = 0
  /\ autosaveTimer = <<>>
  /\ timers = {}
  /\ mainAutosaveMinutes = 0
  /\ view = <<>>

\* the application not started
AppIdle == AppIdleWindow /\ InstancesIdle

Init ==
  /\ oldText \in DiffTexts
  /\ newText \in DiffTexts
  /\ called = "none"
  /\ raised = FALSE
  /\ diffResult = <<>>
  /\ text = <<>>
  /\ blocks = <<>>
  /\ html = <<>>
  /\ AppIdle

\* a call computeDiff(oldText, newText)
ComputeDiff ==
  /\ called = "none"
  /\ LET r == computeDiff(oldText, newText)
     IN /\ raised' = r.threw
        /\ diffResult' = r.value
  /\ called' = "computeDiff"
  /\ UNCHANGED <<oldText, newText, text, blocks, html>>
  /\ UNCHANGED <<appVars, instanceVars, view>>

Next == ComputeDiff

Spec == Init /\ [][Next]_vars

\* splitIntoBlocks on its own: any text of the Markdown vocabulary
SplitInit ==
  /\ text \in MdTexts
  /\ oldText = <<>>
  /\ newText = <<>>
  /\ called = "none"
  /\ raised = FALSE
  /\ diffResult = <<>>
  /\ blocks = <<>>
  /\ html = <<>>
  /\ AppIdle

\* a call splitIntoBlocks(text)
SplitIntoBlocks ==
  /\ called = "none"
  /\ blocks' = splitIntoBlocks(text)
  /\ called' = "splitIntoBlocks"
  /\ UNCHANGED <<oldText, newText, raised, diffResult, text, html>>
  /\ UNCHANGED <<appVars, instanceVars, view>>

SplitNext == SplitIntoBlocks

SplitSpec == SplitInit /\ [][SplitNext]_vars

\* splitIntoBlocks on the texts of fence lines
FenceInit ==
  /\ text \in FenceTexts
  /\ oldText = <<>>
  /\ newText = <<>>
  /\ called = "none"
  /\ raised = FALSE
  /\ diffResult = <<>>
  /\ blocks = <<>>
  /\ html = <<>>
  /\ AppIdle

FenceSpec == FenceInit /\ [][SplitNext]_vars

\* the block diff: any two texts of the block vocabulary
BlockInit ==
  /\ oldText \in BlockTexts
  /\ newText \in BlockTexts
  /\ called = "none"
  /\ raised = FALSE
  /\ diffResult = <<>>
  /\ text = <<>>
  /\ blocks = <<>>
  /\ html = <<>>
  /\ AppIdle

\* a call renderMarkdownDiff(oldText, newText)
RenderMarkdownDiff ==
  /\ called = "none"
  /\ LET r == renderMarkdownDiff(oldText, newText)
     IN /\ raised' = r.threw
        /\ html' = r.value
  /\ called' = "renderMarkdownDiff"
  /\ UNCHANGED <<oldText, newText, diffResult, text, blocks>>
  /\ UNCHANGED <<appVars, instanceVars, view>>

\* a call renderMarkdownDiffInline(oldText, newText)
RenderMarkdownDiffInline ==
  /\ called = "none"
  /\ LET r == renderMarkdownDiffInline(oldText, newText)
     IN /\ raised' = r.threw
        /\ html' = r.value
  /\ called' = "renderMarkdownDiffInline"
  /\ UNCHANGED <<oldText, newText, diffResult, text, blocks>>
  /\ UNCHANGED <<appVars, instanceVars, view>>

BlockNext == RenderMarkdownDiff \/ RenderMarkdownDiffInline

BlockSpec == BlockInit /\ [][BlockNext]_vars

\* every function on the same pair of texts; splitIntoBlocks gets the old one
AnyInit ==
  /\ oldText \in AnyTexts
  /\ newText \in AnyTexts
  /\ called = "none"
  /\ raised = FALSE
  /\ diffResult = <<>>
  /\ text = oldText
  /\ blocks = <<>>
  /\ html = <<>>
  /\ AppIdle

AnyNext ==
  \/ ComputeDiff
  \/ SplitIntoBlocks
  \/ RenderMarkdownDiff
  \/ RenderMarkdownDiffInline

AnySpec == AnyInit /\ [][AnyNext]_vars

(***************************************************************************)
(* Properties of computeDiff.                                              *)
(***************************************************************************)
\* the call has returned (without an exception)
DiffDone == called = "computeDiff" /\ ~raised

\* the lines, in output order, of the entries whose type is in types
LinesOfTypes(res, types) ==
  LET sel == SelectSeq(res, LAMBDA e : e.type \in types)
  IN [i \in 1..Len(sel) |-> sel[i].lines[1]]

OldSideLines(res) == LinesOfTypes(res, {"unchanged", "removed"})
NewSideLines(res) == LinesOfTypes(res, {"unchanged", "added"})

\* text.split("\n") without its final piece when that piece is empty, which
\* it is for the empty text and for a text that ends with a newline
LinesWithoutFinalEmpty(t) ==
  LET ls == SplitNl(t)
  IN IF ls[Len(ls)] = <<>> THEN SubSeq(ls, 1, Len(ls) - 1) ELSE ls

\* C1 as stated: the unchanged and removed entries carry exactly
\* oldText.split("\n"), the unchanged and added entries exactly
\* newText.split("\n").
C1_AllSplitLinesCarried ==
  DiffDone =>
    /\ OldSideLines(diffResult) = SplitNl(oldText)
    /\ NewSideLines(diffResult) = SplitNl(newText)

\* C1 amended: the unchanged and removed entries carry, in order and without
\* loss or duplication, the lines of oldText.split("\n") except a final empty
\* line (oldText empty or ending with a newline); the unchanged and added
\* entries carry the lines of newText in the same way.
C1_LinesCarriedButFinalEmpty ==
  DiffDone =>
    /\ OldSideLines(diffResult) = LinesWithoutFinalEmpty(oldText)
    /\ NewSideLines(diffResult) = LinesWithoutFinalEmpty(newText)

\* C1 witness: a diff with entries of all three types of two texts one of
\* which ends with a newline and one of which does not.
C1_Witness ==
  /\ DiffDone
  /\ \A t \in {"unchanged", "removed", "added"} :
        \E i \in 1..Len(diffResult) : diffResult[i].type = t
  /\ Len(oldText) > 0 /\ oldText[Len(oldText)] = NL
  /\ Len(newText) > 0 /\ newText[Len(newText)] # NL

\* C2: oldLine is present exactly on unchanged and removed entries, newLine
\* exactly on unchanged and added entries, and the k-th entry that has an
\* oldLine (newLine) has oldLine (newLine) = k.
C2_LineNumbering ==
  DiffDone =>
    LET withOld == SelectSeq(diffResult, LAMBDA e : e.oldLine # Null)
        withNew == SelectSeq(diffResult, LAMBDA e : e.newLine # Null)
    IN /\ \A i \in 1..Len(diffResult) :
            /\ (diffResult[i].oldLine # Null)
                 <=> diffResult[i].type \in {"unchanged", "removed"}
            /\ (diffResult[i].newLine # Null)
                 <=> diffResult[i].type \in {"unchanged", "added"}
       /\ \A k \in 1..Len(withOld) : withOld[k].oldLine = Some(k)
       /\ \A k \in 1..Len(withNew) : withNew[k].newLine = Some(k)

\* C2 witness: an unchanged entry whose two numbers differ, after removed and
\* added entries, and a change object of more than one line.
C2_Witness ==
  /\ DiffDone
  /\ \E i \in 1..Len(diffResult) :
        /\ diffResult[i].type = "unchanged"
        /\ diffResult[i].oldLine # diffResult[i].newLine
  /\ \E i \in 1..(Len(diffResult) - 1) :
        diffResult[i].type = "removed" /\ diffResult[i + 1].type = "removed"
  /\ \E i \in 1..Len(diffResult) : diffResult[i].type = "added"

\* entry i is the removed member / the added member of a replacement pair
PairRemoved(res, i) ==
  res[i].type = "removed" /\ i < Len(res) /\ res[i + 1].type = "added"
PairAdded(res, i) ==
  res[i].type = "added" /\ i > 1 /\ res[i - 1].type = "removed"

\* C3: an entry carries wordDiffs iff it is a removed entry whose immediate
\* successor is added, or that successor; both members of the pair hold the
\* same sequence, the word diff of the removed line's text and the added
\* line's text.
C3_WordDiffsOnPairs ==
  DiffDone =>
    \A i \in 1..Len(diffResult) :
      /\ (diffResult[i].wordDiffs # Null)
           <=> (PairRemoved(diffResult, i) \/ PairAdded(diffResult, i))
      /\ PairRemoved(diffResult, i) =>
           /\ diffResult[i].wordDiffs = diffResult[i + 1].wordDiffs
           /\ diffResult[i].wordDiffs =
                Some(diffWords(diffResult[i].lines[1],
                               diffResult[i + 1].lines[1]).parts)

\* C3 witness: a replacement pair whose word diff has an unchanged, a removed
\* and an added part, beside a removed entry that is in no pair.
C3_Witness ==
  /\ DiffDone
  /\ \E i \in 1..Len(diffResult) :
        /\ PairRemoved(diffResult, i)
        /\ LET wd == diffResult[i].wordDiffs[1]
           IN /\ \E k \in 1..Len(wd) : wd[k].added
              /\ \E k \in 1..Len(wd) : wd[k].removed
              /\ \E k \in 1..Len(wd) : ~wd[k].added /\ ~wd[k].removed
  /\ \E i \in 1..Len(diffResult) :
        diffResult[i].type = "removed" /\ ~PairRemoved(diffResult, i)

\* entries i..j are a run of removed lines, j+1..k the run of added lines
\* directly after it, and the two runs are one whole changed region
ChangedRegion(res, i, j, k) ==
  /\ 1 <= i /\ i <= j /\ j < k /\ k <= Len(res)
  /\ \A m \in i..j : res[m].type = "removed"
  /\ \A m \in (j + 1)..k : res[m].type = "added"
  /\ (i = 1 \/ res[i - 1].type = "unchanged")
  /\ (k = Len(res) \/ res[k + 1].type = "unchanged")

\* in the region i..k exactly the entries r and a carry wordDiffs, the word
\* diff of the line of r and the line of a
RegionPairIs(res, i, k, r, a) ==
  /\ res[r].wordDiffs = Some(diffWords(res[r].lines[1], res[a].lines[1]).parts)
  /\ res[a].wordDiffs = res[r].wordDiffs
  /\ \A m \in (i..k) \ {r, a} : res[m].wordDiffs = Null

\* C4 as stated: in a changed region made of a removed run followed by an
\* added run the word diff is on the first removed and the first added line;
\* all other lines of the region have none.
C4_FirstRemovedWithFirstAdded ==
  DiffDone =>
    \A i, j, k \in 1..Len(diffResult) :
      ChangedRegion(diffResult, i, j, k) => RegionPairIs(diffResult, i, k, i, j + 1)

\* C4 amended: the pair that receives the word diff is the LAST removed line
\* of the run and the first added line (the two adjacent entries); all other
\* lines of the region have none.
C4_LastRemovedWithFirstAdded ==
  DiffDone =>
    \A i, j, k \in 1..Len(diffResult) :
      ChangedRegion(diffResult, i, j, k) => RegionPairIs(diffResult, i, k, j, j + 1)

\* C4 witness: a changed region with more than one removed line and a
\* different number of added lines.
C4_Witness ==
  /\ DiffDone
  /\ \E i, j, k \in 1..Len(diffResult) :
        /\ ChangedRegion(diffResult, i, j, k)
        /\ j > i
        /\ (j - i + 1) # (k - j)

(***************************************************************************)
(* Properties of splitIntoBlocks.                                          *)
(***************************************************************************)
SplitDone == called = "splitIntoBlocks"

\* for every line of ls from index i on, the index of the line that opened
\* the fence the line lies in (a fence holds its opening and its closing
\* line), 0 for a line outside every fence; open is the fence open before
\* line i
RECURSIVE FenceOpeners(_, _, _)
FenceOpeners(ls, i, open) ==
  IF i > Len(ls) THEN <<>>
  ELSE IF open = 0
  THEN IF FenceMatch(ls[i]) # Null
       THEN <<i>> \o FenceOpeners(ls, i + 1, i)
       ELSE <<0>> \o FenceOpeners(ls, i + 1, 0)
  ELSE LET run == FenceMatch(ls[open])[1]
       IN <<open>> \o FenceOpeners(ls, i + 1,
                        IF CloseRegexTest(ls[i], run[1], Len(run)) THEN 0 ELSE open)

\* the indices of the lines of ls that are in a fence or not blank
KeptIndices(ls) ==
  LET op == FenceOpeners(ls, 1, 0)
  IN SelectSeq([i \in 1..Len(ls) |-> i],
               LAMBDA i : op[i] # 0 \/ ~IsBlankLine(ls[i]))

\* the lines of the blocks, block after block, and for each of these lines
\* the index of its block
BlockLines(bs) == Concat([b \in 1..Len(bs) |-> SplitNl(bs[b])])
BlockOwners(bs) ==
  Concat([b \in 1..Len(bs) |-> [k \in 1..Len(SplitNl(bs[b])) |-> b]])

\* the block that holds line i of the text (a kept line)
BlockOfLine(ls, bs, i) ==
  BlockOwners(bs)[Cardinality({p \in 1..Len(KeptIndices(ls)) : KeptIndices(ls)[p] <= i})]

\* C5: a fence is one block, neither split nor merged: the block that begins
\* with the opening line holds exactly the lines from the opening line to
\* the closing line, blank lines, table rows, quote and list lines among
\* them, and an unclosed fence runs to the last line of the text and is the
\* last block.
C5_FenceIsOneBlock ==
  SplitDone =>
    LET ls     == SplitNl(text)
        op     == FenceOpeners(ls, 1, 0)
        owners == BlockOwners(blocks)
        kept   == KeptIndices(ls)
    IN \A o \in 1..Len(ls) :
         op[o] = o =>
           LET e == CHOOSE x \in o..Len(ls) :
                      op[x] = o /\ (x = Len(ls) \/ op[x + 1] # o)
               p == CHOOSE x \in 1..Len(kept) : kept[x] = o
           IN /\ p <= Len(owners)
              /\ (p = 1 \/ owners[p - 1] # owners[p])
              /\ blocks[owners[p]] = JoinNl(SubSeq(ls, o, e))
              /\ (e < Len(ls) => CloseRegexTest(ls[e], FenceMatch(ls[o])[1][1],
                                                Len(FenceMatch(ls[o])[1])))
              /\ (e = Len(ls) => owners[p] = Len(blocks))

\* C5 witness: a fence that directly follows a paragraph line, holds a blank
\* line and is closed before the end of the text.
C5_Witness ==
  /\ SplitDone
  /\ LET ls == SplitNl(text)
         op == FenceOpeners(ls, 1, 0)
     IN \E o \in 2..Len(ls) :
          /\ op[o] = o
          /\ op[o - 1] = 0 /\ ~IsBlankLine(ls[o - 1])
          /\ \E k \in (o + 1)..Len(ls) : op[k] = o /\ IsBlankLine(ls[k])
          /\ \E k \in (o + 1)..Len(ls) :
                op[k] = o /\ (k < Len(ls) => op[k + 1] # o)
                /\ CloseRegexTest(ls[k], FenceMatch(ls[o])[1][1],
                                  Len(FenceMatch(ls[o])[1]))
  /\ Len(blocks) = 2

\* C6: outside fences, two consecutive non-blank lines that both start with
\* "|", or both with ">", are in one block; two consecutive non-blank lines
\* that differ in "starts with |" or in "starts with >" are in different
\* blocks; and no block outside a fence mixes table rows, or quote lines,
\* with other lines.
C6_TablesAndQuotesGrouped ==
  SplitDone =>
    LET ls == SplitNl(text)
        op == FenceOpeners(ls, 1, 0)
    IN /\ \A i \in 1..(Len(ls) - 1) :
            (/\ op[i] = 0 /\ op[i + 1] = 0
             /\ ~IsBlankLine(ls[i]) /\ ~IsBlankLine(ls[i + 1])) =>
              LET same == BlockOfLine(ls, blocks, i) = BlockOfLine(ls, blocks, i + 1)
              IN /\ (IsTableRow(ls[i]) /\ IsTableRow(ls[i + 1])) => same
                 /\ (IsBlockQuote(ls[i]) /\ IsBlockQuote(ls[i + 1])) => same
                 /\ (\/ IsTableRow(ls[i]) # IsTableRow(ls[i + 1])
                     \/ IsBlockQuote(ls[i]) # IsBlockQuote(ls[i + 1])) => ~same
       /\ \A b \in 1..Len(blocks) :
            LET bl == SplitNl(blocks[b])
            IN FenceMatch(bl[1]) = Null =>
                 \A x, y \in 1..Len(bl) :
                   /\ IsTableRow(bl[x]) = IsTableRow(bl[y])
                   /\ IsBlockQuote(bl[x]) = IsBlockQuote(bl[y])

\* C6 witness: a table of two rows directly followed by a quote line, after
\* a paragraph line with no blank line between any of them.
C6_Witness ==
  /\ SplitDone
  /\ LET ls == SplitNl(text)
     IN /\ Len(ls) = 4
        /\ ~IsBlankLine(ls[1]) /\ ~IsTableRow(ls[1]) /\ ~IsBlockQuote(ls[1])
        /\ FenceMatch(ls[1]) = Null
        /\ IsTableRow(ls[2]) /\ IsTableRow(ls[3]) /\ IsBlockQuote(ls[4])
  /\ Len(blocks) = 3

\* C7: the lines of the blocks, in block order, are exactly the lines of the
\* text without the blank lines that lie outside fences; no block is empty;
\* no block outside a fence holds a blank line; and the lines before and
\* after a blank line outside a fence are in different blocks.
C7_BlocksAreTheNonBlankLines ==
  SplitDone =>
    LET ls   == SplitNl(text)
        op   == FenceOpeners(ls, 1, 0)
        kept == KeptIndices(ls)
    IN /\ BlockLines(blocks) = [p \in 1..Len(kept) |-> ls[kept[p]]]
       /\ \A b \in 1..Len(blocks) :
            /\ blocks[b] # <<>>
            /\ LET bl == SplitNl(blocks[b])
               IN FenceMatch(bl[1]) = Null =>
                    \A x \in 1..Len(bl) : ~IsBlankLine(bl[x])
       /\ \A i, k, j \in 1..Len(ls) :
            (/\ i < k /\ k < j
             /\ op[k] = 0 /\ IsBlankLine(ls[k])
             /\ (op[i] # 0 \/ ~IsBlankLine(ls[i]))
             /\ (op[j] # 0 \/ ~IsBlankLine(ls[j]))) =>
              BlockOfLine(ls, blocks, i) # BlockOfLine(ls, blocks, j)

\* C7 witness: a text with a blank line inside a fence and a whitespace-only
\* line outside it, between two kept lines.
C7_Witness ==
  /\ SplitDone
  /\ LET ls == SplitNl(text)
         op == FenceOpeners(ls, 1, 0)
     IN /\ \E k \in 1..Len(ls) : op[k] # 0 /\ IsBlankLine(ls[k])
        /\ \E k \in 2..(Len(ls) - 1) :
              /\ op[k] = 0 /\ ls[k] = <<" ">>
              /\ ~IsBlankLine(ls[k - 1]) /\ ~IsBlankLine(ls[k + 1])
  /\ Len(blocks) >= 2

(***************************************************************************)
(* The block diff                                                          *)
(***************************************************************************)
BlockDiffDone == called = "renderMarkdownDiff"

\* the contents of the containers of html whose class is in classes, in order
BodiesOf(divs, classes) ==
  LET sel == SelectSeq(divs, LAMBDA d : d.class \in classes)
  IN [p \in 1..Len(sel) |-> sel[p].body]

\* the rendered blocks of a text, in order
RenderedBlocks(t) ==
  LET bs == splitIntoBlocks(t) IN [b \in 1..Len(bs) |-> renderMarkdown(bs[b])]

\* how many of the first p containers have a class in classes
CountOf(divs, classes, p) ==
  Cardinality({q \in 1..p : divs[q].class \in classes})

C9_EqualTextsGiveNoChanges ==
  (called \in {"renderMarkdownDiff", "renderMarkdownDiffInline"} /\ oldText = newText) =>
    /\ ~raised
    /\ html = NoChanges

\* C9 witness: renderMarkdownDiff on two equal texts of two blocks.
C9_Witness ==
  /\ BlockDiffDone /\ oldText = newText
  /\ Len(splitIntoBlocks(oldText)) = 2
  /\ html = NoChanges

\* C9 witness for the inline view.
C9_WitnessInline ==
  /\ called = "renderMarkdownDiffInline" /\ oldText = newText
  /\ Len(splitIntoBlocks(oldText)) = 2
  /\ html = NoChanges

C10_WitnessComputeDiffEmpty ==
  called = "computeDiff" /\ oldText = <<>> /\ newText = <<>> /\ ~raised

C10_WitnessNewlinesOnly ==
  called = "computeDiff" /\ oldText = <<NL>> /\ newText = <<"a">> /\ ~raised

C10_WitnessSplitFence ==
  /\ called = "splitIntoBlocks" /\ text = <<Backtick, Backtick, Backtick, NL, "a">>
  /\ Len(blocks) = 1

(***************************************************************************)
(* computeDiff: equal texts, line counts, word-level parts                 *)
(***************************************************************************)
\* C11: computeDiff(a, a) contains only entries of type unchanged, and every
\* entry has oldLine equal to newLine.
C11_EqualTextsAllUnchanged ==
  (DiffDone /\ oldText = newText) =>
    \A i \in 1..Len(diffResult) :
      /\ diffResult[i].type = "unchanged"
      /\ diffResult[i].oldLine = diffResult[i].newLine
      /\ diffResult[i].oldLine # Null

\* C11 witness: the diff of a text of three lines, one of them empty, with
\* itself.
C11_Witness ==
  /\ DiffDone /\ oldText = newText
  /\ Len(diffResult) = 3
  /\ \E i \in 1..3 : diffResult[i].lines[1] = <<>>
  /\ diffResult[3].oldLine = Some(3) /\ diffResult[3].newLine = Some(3)

\* the number of newline characters of a text
NewlineCount(t) == Cardinality({i \in 1..Len(t) : t[i] = NL})

\* the number of lines of a text whose lines are ended, not separated, by
\* newlines: a final newline ends the last line and the empty text has none
TerminatedLineCount(t) ==
  IF t = <<>> THEN 0
  ELSE IF t[Len(t)] = NL THEN NewlineCount(t)
  ELSE NewlineCount(t) + 1

\* C12 as stated: the number of old-side entries is the number of newline
\* characters of oldText plus one, the number of new-side entries the number
\* of newline characters of newText plus one.
C12_NaiveSplitCount ==
  DiffDone =>
    /\ Len(OldSideLines(diffResult)) = NewlineCount(oldText) + 1
    /\ Len(NewSideLines(diffResult)) = NewlineCount(newText) + 1

\* C12 amended: a final newline does not contribute an empty line.  The
\* number of old-side entries is the number of newline characters of oldText
\* plus one when oldText is not empty and does not end with a newline, the
\* number of newline characters when it ends with one, and zero when it is
\* empty; the same for the new-side entries and newText.
C12_TerminatedLineCount ==
  DiffDone =>
    /\ Len(OldSideLines(diffResult)) = TerminatedLineCount(oldText)
    /\ Len(NewSideLines(diffResult)) = TerminatedLineCount(newText)

\* C12 witness: an old text that ends with two newlines and has as many
\* old-side entries as newlines, against a new text without a final newline.
C12_Witness ==
  /\ DiffDone
  /\ Len(oldText) >= 3
  /\ oldText[Len(oldText)] = NL /\ oldText[Len(oldText) - 1] = NL
  /\ Len(OldSideLines(diffResult)) = NewlineCount(oldText)
  /\ newText # <<>> /\ newText[Len(newText)] # NL
  /\ Len(NewSideLines(diffResult)) = NewlineCount(newText) + 1
  /\ NewlineCount(newText) >= 1

\* the concatenation of the values of the parts of a word diff that are not
\* added (side = "old") or not removed (side = "new"): the text that
\* renderWordDiffs shows on that side
SideText(wordDiffs, side) ==
  Concat([k \in 1..Len(wordDiffs) |->
            IF (side = "old" /\ wordDiffs[k].added)
               \/ (side = "new" /\ wordDiffs[k].removed)
            THEN <<>> ELSE wordDiffs[k].value])

\* C13 as stated: for every replacement pair the parts of wordDiffs that are
\* unchanged or removed spell the removed line character for character, and
\* the parts that are unchanged or added spell the added line.
C13_WordDiffsSpellBothLines ==
  DiffDone =>
    \A i \in 1..Len(diffResult) :
      PairRemoved(diffResult, i) =>
        /\ SideText(diffResult[i].wordDiffs[1], "old") = diffResult[i].lines[1]
        /\ SideText(diffResult[i + 1].wordDiffs[1], "new") = diffResult[i + 1].lines[1]

\* the failing input of C13: the lines "b  a" and "b a" differ in one space,
\* the word diff of the pair is the single unchanged part "b a", and the
\* removed line is not spelled by it
C13_SpacesOnlyPairSpelled ==
  (/\ DiffDone
   /\ oldText = <<"b", " ", " ", "a">>
   /\ newText = <<"b", " ", "a">>) =>
     SideText(diffResult[1].wordDiffs[1], "old") = oldText

\* the added line of every replacement pair is spelled by the parts that are
\* unchanged or added
C13_AddedLineSpelled ==
  DiffDone =>
    \A i \in 1..Len(diffResult) :
      PairRemoved(diffResult, i) =>
        SideText(diffResult[i + 1].wordDiffs[1], "new") = diffResult[i + 1].lines[1]

(***************************************************************************)
(* splitIntoBlocks: the end of a fence                                     *)
(***************************************************************************)
\* the index of the first line of ls that opens a fence, 0 when none does
FirstOpener(ls) ==
  LET os == {i \in 1..Len(ls) : FenceMatch(ls[i]) # Null}
  IN IF os = {} THEN 0 ELSE CHOOSE i \in os : \A j \in os : i <= j

\* the index of the first block that begins with a fence opener, 0 when none
FirstFenceBlock(bs) ==
  LET fs == {b \in 1..Len(bs) : FenceMatch(SplitNl(bs[b])[1]) # Null}
  IN IF fs = {} THEN 0 ELSE CHOOSE b \in fs : \A c \in fs : b <= c

\* the run of the opener's character at the start of a line
SameCharRun(opener, line) == RunLen(line, opener[1], 0)

\* the line starts with a run of the opener's character that is at least as
\* long as the opener's run, and holds nothing but whitespace after it
IsProperCloser(opener, line) ==
  LET n == Len(FenceMatch(opener)[1])
      m == SameCharRun(opener, line)
  IN m >= n /\ \A k \in (m + 1)..Len(line) : IsSpace(line[k])

\* the three kinds of line that C14 says leave the fence open
ShorterRun(opener, line) ==
  SameCharRun(opener, line) >= 1
    /\ SameCharRun(opener, line) < Len(FenceMatch(opener)[1])
OtherCharRun(opener, line) ==
  LET other == IF opener[1] = Backtick THEN "~" ELSE Backtick
  IN RunLen(line, other, 0) >= 3
RunThenText(opener, line) ==
  LET m == SameCharRun(opener, line)
  IN m >= Len(FenceMatch(opener)[1])
       /\ \E k \in (m + 1)..Len(line) : ~IsSpace(line[k])

\* C14: the block of the first fence of a text holds the lines from the
\* opening line on; when it ends before the last line of the text, its last
\* line starts with a run of the opener's character at least as long as the
\* opener's run and has only whitespace after the run; no line with a
\* shorter run, with a run of the other fence character or with text after
\* the run ends the block before the last line of the text.
C14_ClosedOnlyBySameCharLongEnough ==
  SplitDone =>
    LET ls == SplitNl(text)
        o  == FirstOpener(ls)
        b  == FirstFenceBlock(blocks)
    IN o # 0 =>
         /\ b # 0
         /\ LET blk == SplitNl(blocks[b])
                e   == o + Len(blk) - 1
            IN /\ e <= Len(ls)
               /\ blk = SubSeq(ls, o, e)
               /\ e < Len(ls) => (e > o /\ IsProperCloser(ls[o], ls[e]))
               /\ \A k \in (o + 1)..e :
                    (\/ ShorterRun(ls[o], ls[k])
                     \/ OtherCharRun(ls[o], ls[k])
                     \/ RunThenText(ls[o], ls[k])) => (k < e \/ e = Len(ls))

\* C14 witness: a fence of four backticks holds a line of three backticks
\* and a line of four tildes, is closed by four backticks and a space, and a
\* paragraph follows it as a block of its own.
C14_Witness ==
  /\ SplitDone
  /\ Len(SplitNl(text)) = 5
  /\ LET ls == SplitNl(text)
     IN /\ ls[1] = <<Backtick, Backtick, Backtick, Backtick>>
        /\ ShorterRun(ls[1], ls[2])
        /\ OtherCharRun(ls[1], ls[3])
        /\ ls[4] = <<Backtick, Backtick, Backtick, Backtick, " ">>
        /\ ls[5] = <<"a">>
  /\ Len(blocks) = 2
  /\ blocks[2] = <<"a">>

\* a fence of three backticks that holds a run of four followed by text is
\* closed by the longer run of four
C14_WitnessLongerRun ==
  /\ SplitDone
  /\ Len(SplitNl(text)) = 4
  /\ LET ls == SplitNl(text)
     IN /\ ls[1] = <<Backtick, Backtick, Backtick>>
        /\ RunThenText(ls[1], ls[2])
        /\ ls[3] = <<Backtick, Backtick, Backtick, Backtick>>
        /\ ls[4] = <<"a">>
  /\ Len(blocks) = 2

\* the line is whitespace, or nothing, then a run of the opener's character
\* at least as long as the opener's run, then nothing but whitespace
IsCloserAfterWs(opener, line) == IsProperCloser(opener, StripLeadingWs(line))

\* the index of the first line after line o of ls that is optional
\* whitespace and a closing run, the index of the last line when none is
FenceEndAfterWs(ls, o) ==
  LET cs == {k \in (o + 1)..Len(ls) : IsCloserAfterWs(ls[o], ls[k])}
  IN IF cs = {} THEN Len(ls) ELSE CHOOSE k \in cs : \A j \in cs : k <= j

\* the index of the first line after line o of ls that starts with a closing
\* run, the index of the last line when none does
FenceEndAtRun(ls, o) ==
  LET cs == {k \in (o + 1)..Len(ls) : IsProperCloser(ls[o], ls[k])}
  IN IF cs = {} THEN Len(ls) ELSE CHOOSE k \in cs : \A j \in cs : k <= j

\* C15 as stated: the first line inside the first fence that is optional
\* whitespace, a long enough run of the opener's character and trailing
\* whitespace closes the fence: the block ends with that line.
C15_CloserMayBeIndented ==
  SplitDone =>
    LET ls == SplitNl(text)
        o  == FirstOpener(ls)
        b  == FirstFenceBlock(blocks)
    IN o # 0 =>
         /\ b # 0
         /\ blocks[b] =
              JoinNl(SubSeq(ls, o, FenceEndAfterWs(ls, o)))

\* C15 amended: the closing line starts with the fence run, without leading
\* whitespace.  The block of the first fence ends with the first line
\* inside it that is a long enough run of the opener's character followed by
\* nothing but whitespace; a line with whitespace before such a run does not
\* close the fence and is a line of the block like any other.
C15_CloserStartsWithTheRun ==
  SplitDone =>
    LET ls == SplitNl(text)
        o  == FirstOpener(ls)
        b  == FirstFenceBlock(blocks)
    IN o # 0 =>
         /\ b # 0
         /\ blocks[b] =
              JoinNl(SubSeq(ls, o, FenceEndAtRun(ls, o)))

\* C15 witness: inside a fence of four backticks a line of a space and four
\* backticks is followed by a line of four backticks; the block ends with
\* the latter, and the paragraph after it is a second block.
C15_Witness ==
  /\ SplitDone
  /\ text = <<Backtick, Backtick, Backtick, Backtick, NL,
              " ", Backtick, Backtick, Backtick, Backtick, NL,
              Backtick, Backtick, Backtick, Backtick, NL, "a">>
  /\ Len(blocks) = 2
  /\ Len(SplitNl(blocks[1])) = 3

(***************************************************************************)
(* splitIntoBlocks: lists                                                  *)
(***************************************************************************)
\* a list line as C16 defines it: a bullet marker -, * or + followed by
\* whitespace, or digits, then . or ), then whitespace
ListLineByMarker(line) ==
  \/ /\ Len(line) >= 2
     /\ line[1] \in {"-", "*", "+"}
     /\ IsSpace(line[2])
  \/ LET d == DigitRunEnd(line, 1)
     IN /\ d > 1
        /\ d + 1 <= Len(line)
        /\ line[d] \in {".", ")"}
        /\ IsSpace(line[d + 1])

\* C16 as stated: outside fences a list line that follows a line that is not
\* blank, not a list line and not indented starts a block of its own, and a
\* list line or an indented line that follows a list line is in the block
\* of that list line.
C16_ListIsItsOwnBlock ==
  SplitDone =>
    LET ls == SplitNl(text)
        op == FenceOpeners(ls, 1, 0)
    IN \A i \in 2..Len(ls) :
         (op[i - 1] = 0 /\ op[i] = 0) =>
           /\ (/\ ListLineByMarker(ls[i])
               /\ ~IsBlankLine(ls[i - 1])
               /\ ~ListLineByMarker(ls[i - 1])
               /\ ~IsIndented(ls[i - 1]))
                => BlockOfLine(ls, blocks, i) # BlockOfLine(ls, blocks, i - 1)
           /\ (/\ ListLineByMarker(ls[i - 1])
               /\ (ListLineByMarker(ls[i]) \/ IsIndented(ls[i])))
                => BlockOfLine(ls, blocks, i) = BlockOfLine(ls, blocks, i - 1)

\* the failing input of C16: the paragraph line a and the list line "- a"
\* after it are two blocks
C16_ListAfterParagraphSplit ==
  (SplitDone /\ text = <<"a", NL, "-", " ", "a">>) => Len(blocks) = 2

\* the part of C16 that holds: outside fences a list line or an indented
\* line that follows a list line is in the block of that list line
C16_ListLinesStayTogether ==
  SplitDone =>
    LET ls == SplitNl(text)
        op == FenceOpeners(ls, 1, 0)
    IN \A i \in 2..Len(ls) :
         (/\ op[i - 1] = 0 /\ op[i] = 0
          /\ ListLineByMarker(ls[i - 1])
          /\ (ListLineByMarker(ls[i]) \/ IsIndented(ls[i])))
           => BlockOfLine(ls, blocks, i) = BlockOfLine(ls, blocks, i - 1)

\* ---------------------------------------------------------------------------
\* The application: one window, its renderer process (index.js) and its main
\* process (main.js)
\* ---------------------------------------------------------------------------

\* the largest document content; 0 is the empty document ""
MaxContent == 2

\* the file operations of the renderer that may be in progress at once
MaxFileOps == 1

Contents == 0..MaxContent

Paths == {"f1", "f2"}

\* no run of a file operation in this slot
NoOp == [kind |-> "none", pc |-> "none", phase |-> "none", content |-> 0,
         running |-> <<>>, orig |-> <<>>]

\* an ipcRenderer.invoke call: the channel, the run of the file operation
\* that awaits its reply (0 when nobody awaits it) and the arguments
Msg(chan, op, content, filePath, dirty) ==
  [chan |-> chan, op |-> op, content |-> content, filePath |-> filePath,
   isDirty |-> dirty]

\* window.__mdpadGetCloseState()
__mdpadGetCloseState ==
  [isDirty |-> isDirty, hasFilePath |-> currentFilePath # Null,
   filePath |-> currentFilePath]

\* onEditorChange without the suppressDirty test
onEditorChangeUnsuppressed(sup, dirty) == TRUE

\* isDirty after onEditorChange ran with suppressDirty = sup
onEditorChange(sup, dirty) == IF sup THEN dirty ELSE TRUE

\* isDirty after setContentClean: the change handler runs inside
\* suppressDirty = true
setContentClean(dirty) == onEditorChange(TRUE, dirty)

\* const DEFAULT_MINUTES of autosave-manager.js
DEFAULT_MINUTES == 5

(***************************************************************************)
(* The panes of the window: pane-manager.js, preview-pane.js, diff-pane.js *)
(* and the part of onEditorChange that updates them.  A pane's shown       *)
(* content is recorded as the call that produced it: the function and its  *)
(* two texts.  newFile, openFile, loadFileByPath and performRestore update *)
(* the preview and the diff pane only when they are visible; the           *)
(* specifications in which those run never show them, and the              *)
(* specification of the panes has no file operation, so that               *)
(* originalSource of preview-pane.js is originalContent throughout.        *)
(***************************************************************************)
PaneNames == {"editor", "preview", "diff"}

Shown(kind, old, new) == [kind |-> kind, old |-> old, new |-> new]

\* !x of JavaScript for x null or a string: null and "" are falsy
Falsy(x) == x = Null \/ x = Some(0)

\* the state after the modules are loaded and init() has built the panes:
\* only the editor is visible, the preview has rendered "" and the diff pane
\* shows diffPane.noChanges
ViewStart ==
  [paneState |-> [editor |-> TRUE, preview |-> FALSE, diff |-> FALSE],
   handle1 |-> FALSE,
   handle2 |-> FALSE,
   blocked |-> FALSE,
   renderTimer |-> 0,
   currentSource |-> 0,
   previewMode |-> "preview",
   diffSource |-> "history",
   diffFileContent |-> Null,
   body |-> Shown("renderMarkdown", 0, 0),
   diffMode |-> "history",
   comparisonFileContent |-> Null,
   contentEl |-> Shown("noChanges", 0, 0)]

\* applyLayout(): the display of the two resize handles
applyLayout(v) ==
  [v EXCEPT !.handle1 = v.paneState.editor /\ v.paneState.preview,
            !.handle2 = \/ v.paneState.preview /\ v.paneState.diff
                        \/ v.paneState.editor /\ v.paneState.diff
                             /\ ~v.paneState.preview]

\* updateDiff(currentContent, originalContent) of diff-pane.js
updateDiff(v, currentContent, original) ==
  IF v.diffMode = "file" /\ Falsy(v.comparisonFileContent)
  THEN [v EXCEPT !.contentEl = Shown("selectFile", 0, 0)]
  ELSE LET old == IF v.diffMode = "history" THEN original
                  ELSE v.comparisonFileContent[1]
       IN IF old = currentContent
          THEN [v EXCEPT !.contentEl = Shown("noChangesDiff", 0, 0)]
          ELSE [v EXCEPT !.contentEl = Shown("computeDiff", old, currentContent)]

\* doRenderRichDiff() of preview-pane.js; originalSource is originalContent
doRenderRichDiff(v, original) ==
  IF v.diffSource = "file" /\ Falsy(v.diffFileContent)
  THEN [v EXCEPT !.body = Shown("selectFile", 0, 0)]
  ELSE LET old == IF v.diffSource = "history" THEN original
                  ELSE v.diffFileContent[1]
       IN [v EXCEPT !.body = Shown("renderMarkdownDiff", old, v.currentSource)]

\* renderCurrent() of preview-pane.js
renderCurrent(v, original) ==
  IF v.previewMode = "preview"
  THEN [v EXCEPT !.body = Shown("renderMarkdown", 0, v.currentSource)]
  ELSE doRenderRichDiff(v, original)

\* updatePreview without clearTimeout: every call leaves one more timeout
updatePreviewUncleared(v, markdownSource) ==
  [v EXCEPT !.currentSource = markdownSource,
            !.renderTimer = v.renderTimer + 1]

\* updatePreview(markdownSource): the pending timeout is cleared and one of
\* 150 ms is set; renderTimer counts the timeouts that are set
updatePreview(v, markdownSource) ==
  [v EXCEPT !.currentSource = markdownSource,
            !.renderTimer = 1]

\* updatePreviewImmediate(markdownSource)
updatePreviewImmediate(v, markdownSource, original) ==
  renderCurrent([v EXCEPT !.currentSource = markdownSource], original)

\* the callback init() gives to onPaneChange
onPaneChangeCallback(v, content, original) ==
  LET p == IF v.paneState.preview
           THEN updatePreviewImmediate(v, content, original) ELSE v
  IN IF p.paneState.diff THEN updateDiff(p, content, original) ELSE p

\* togglePane without the test for the last visible pane
togglePaneUnguarded(v, name, content, original) ==
  onPaneChangeCallback(
    applyLayout([v EXCEPT !.paneState[name] = ~v.paneState[name],
                          !.blocked = FALSE]),
    content, original)

\* togglePane(name)
togglePane(v, name, content, original) ==
  LET newState == ~v.paneState[name]
      otherPanesVisible == \E k \in PaneNames \ {name} : v.paneState[k]
  IN IF ~newState /\ ~otherPanesVisible
     THEN [v EXCEPT !.blocked = TRUE]
     ELSE onPaneChangeCallback(
            applyLayout([v EXCEPT !.paneState[name] = newState,
                                  !.blocked = FALSE]),
            content, original)

\* the two layout presets of the toolbar
LayoutPresets ==
  { [editor |-> TRUE, preview |-> TRUE, diff |-> FALSE],
    [editor |-> TRUE, preview |-> TRUE, diff |-> TRUE] }

\* setPaneState(state): state names all three panes in both presets
setPaneState(v, state, content, original) ==
  onPaneChangeCallback(
    applyLayout([v EXCEPT !.paneState = state, !.blocked = FALSE]),
    content, original)

\* the part of onEditorChange(content) after updateTitle()
onEditorChangePanes(v, sup, content, original) ==
  IF sup THEN v
  ELSE LET p == IF v.paneState.preview THEN updatePreview(v, content) ELSE v
       IN [(IF p.paneState.diff THEN updateDiff(p, content, original) ELSE p)
             EXCEPT !.blocked = FALSE]

\* window._mdpadDiffUpdate()
_mdpadDiffUpdate(v, content, original) ==
  IF v.paneState.diff THEN updateDiff(v, content, original) ELSE v

\* the window opened: an empty untitled document, one file on disk
WindowInit ==
  /\ isDirty = FALSE
  /\ currentFilePath = Null
  /\ originalContent = 0
  /\ suppressDirty = FALSE
  /\ doc = 0
  /\ overlay = Null
  /\ fileOps = [i \in 1..MaxFileOps |-> NoOp]
  /\ windowForceQuit = FALSE
  /\ forceQuit = FALSE
  /\ closeDialogResolve = Null
  /\ closeHandlers = <<>>
  /\ winOpen = TRUE
  /\ showDialogMsgs = <<>>
  /\ dialogResultMsgs = <<>>
  /\ disk = [p \in Paths |-> IF p = "f1" THEN Some(1) ELSE Null]
  /\ backupFile = Null
  /\ sessionFile = Null
  /\ view = ViewStart
  /\ InstancesIdle

\* the application started, the autosave timer left out: no timer is
\* started and main has the default interval
AppInit ==
  /\ WindowInit
  /\ ipc = <<>>
  /\ autosaveMinutes = 0
  /\ autosaveTimer = Null
  /\ timers = {}
  /\ mainAutosaveMinutes = DEFAULT_MINUTES

DiffIdle ==
  /\ oldText = <<>>
  /\ newText = <<>>
  /\ called = "none"
  /\ raised = FALSE
  /\ diffResult = <<>>
  /\ text = <<>>
  /\ blocks = <<>>
  /\ html = <<>>

\* the user changes the text in the editor: the update listener calls
\* onEditorChange
Edit ==
  /\ winOpen
  /\ \E c \in Contents \ {doc} : doc' = c
  /\ isDirty' = onEditorChange(suppressDirty, isDirty)
  /\ view' = onEditorChangePanes(view, suppressDirty, doc', originalContent)
  /\ UNCHANGED <<currentFilePath, originalContent, suppressDirty, overlay, fileOps>>
  /\ UNCHANGED <<windowForceQuit, forceQuit, closeDialogResolve, closeHandlers, winOpen>>
  /\ UNCHANGED <<showDialogMsgs, dialogResultMsgs, ipc, fileVars, diffVars, autosaveVars, instanceVars>>

FreeOps == {i \in 1..MaxFileOps : fileOps[i].kind = "none"}

CanStart(i) == winOpen /\ i \in FreeOps /\ \A j \in FreeOps : i <= j

Await(kind, chan, phase, content) ==
  [kind |-> kind, pc |-> chan, phase |-> phase, content |-> content,
   running |-> <<>>, orig |-> <<>>]

\* saveFile() called for the run i of kind: without a path it is saveFileAs()
callSaveFile(i, kind, q) ==
  /\ fileOps' = [fileOps EXCEPT ![i] =
       Await(kind, IF currentFilePath = Null THEN "file:saveAs" ELSE "file:save",
             "save", doc)]
  /\ ipc' = Append(q, Msg(IF currentFilePath = Null THEN "file:saveAs" ELSE "file:save",
                          i, doc, currentFilePath, isDirty))
  /\ UNCHANGED docVars

\* newFile() from "currentFilePath = null" to its first await
newBody(i, q) ==
  /\ currentFilePath' = Null
  /\ originalContent' = 0
  /\ doc' = 0
  /\ isDirty' = setContentClean(FALSE)
  /\ UNCHANGED suppressDirty
  /\ fileOps' = [fileOps EXCEPT ![i] = Await("new", "session:clear", "body", 0)]
  /\ ipc' = Append(q, Msg("session:clear", i, 0, Null, FALSE))

\* openFile() from "await window.mdpad.openFile()"
openBody(i, q) ==
  /\ fileOps' = [fileOps EXCEPT ![i] = Await("open", "file:open", "body", 0)]
  /\ ipc' = Append(q, Msg("file:open", i, 0, Null, FALSE))
  /\ UNCHANGED docVars

ConfirmSaveResults == {"save", "dontSave", "cancel"}

\* File > New; r is the answer to the confirm dialog of a dirty document
NewFile ==
  /\ \E i \in 1..MaxFileOps, r \in ConfirmSaveResults :
       /\ CanStart(i)
       /\ IF isDirty /\ r = "save" THEN callSaveFile(i, "new", ipc)
          ELSE IF isDirty /\ r = "cancel" THEN UNCHANGED <<docVars, opVars>>
          ELSE newBody(i, ipc)
  /\ UNCHANGED <<closeVars, fileVars, diffVars, autosaveVars, instanceVars, view>>

\* File > Open
OpenFile ==
  /\ \E i \in 1..MaxFileOps, r \in ConfirmSaveResults :
       /\ CanStart(i)
       /\ IF isDirty /\ r = "save" THEN callSaveFile(i, "open", ipc)
          ELSE IF isDirty /\ r = "cancel" THEN UNCHANGED <<docVars, opVars>>
          ELSE openBody(i, ipc)
  /\ UNCHANGED <<closeVars, fileVars, diffVars, autosaveVars, instanceVars, view>>

\* File > Save
SaveFile ==
  /\ \E i \in 1..MaxFileOps : CanStart(i) /\ callSaveFile(i, "save", ipc)
  /\ UNCHANGED <<closeVars, fileVars, diffVars, autosaveVars, instanceVars, view>>

\* File > Save As
SaveFileAs ==
  /\ \E i \in 1..MaxFileOps :
       /\ CanStart(i)
       /\ fileOps' = [fileOps EXCEPT ![i] = Await("saveAs", "file:saveAs", "save", doc)]
       /\ ipc' = Append(ipc, Msg("file:saveAs", i, doc, Null, isDirty))
  /\ UNCHANGED <<docVars, closeVars, fileVars, diffVars, autosaveVars, instanceVars, view>>

\* loadFileByPath(p): a file dropped on the window or given at start
LoadFileByPath ==
  /\ \E i \in 1..MaxFileOps, p \in Paths :
       /\ CanStart(i)
       /\ fileOps' = [fileOps EXCEPT ![i] = Await("load", "file:openByPath", "body", 0)]
       /\ ipc' = Append(ipc, Msg("file:openByPath", i, 0, Some(p), FALSE))
  /\ UNCHANGED <<docVars, closeVars, fileVars, diffVars, autosaveVars, instanceVars, view>>

\* the call that main received first
Received(chan) == winOpen /\ ipc # <<>> /\ Head(ipc).chan = chan

\* ipcMain.handle("session:clear"): clearSession(); the caller then awaits
\* clearAutosaveBackup()
HandleSessionClear ==
  /\ Received("session:clear")
  /\ sessionFile' = Null
  /\ LET i == Head(ipc).op IN
       /\ fileOps' = [fileOps EXCEPT ![i].pc = "autosave:clear"]
       /\ ipc' = Append(Tail(ipc), Msg("autosave:clear", i, 0, Null, FALSE))
  /\ UNCHANGED <<docVars, closeVars, disk, backupFile, diffVars, autosaveVars, instanceVars, view>>

\* ipcMain.handle("autosave:clear"): clearAutosaveBackup(); saveFile() then
\* returns true to newFile() or openFile(), every other caller is at its end
HandleAutosaveClear ==
  /\ Received("autosave:clear")
  /\ backupFile' = Null
  /\ LET i == Head(ipc).op
         o == fileOps[i]
     IN  IF o.phase = "save" /\ o.kind = "new" THEN newBody(i, Tail(ipc))
         ELSE IF o.phase = "save" /\ o.kind = "open" THEN openBody(i, Tail(ipc))
         ELSE /\ fileOps' = [fileOps EXCEPT ![i] = NoOp]
              /\ ipc' = Tail(ipc)
              /\ UNCHANGED docVars
  /\ UNCHANGED <<closeVars, disk, sessionFile, diffVars, autosaveVars, instanceVars, view>>

FileChans == {"file:save", "file:saveAs", "file:open", "file:openByPath"}

\* main receives a file call: its handler is async and ends later
HandleFileCall ==
  /\ winOpen
  /\ ipc # <<>>
  /\ Head(ipc).chan \in FileChans
  /\ fileOps' = [fileOps EXCEPT ![Head(ipc).op].running = Some(Head(ipc))]
  /\ ipc' = Tail(ipc)
  /\ UNCHANGED <<docVars, closeVars, fileVars, diffVars, autosaveVars, instanceVars, view>>

Running(i, chan) ==
  /\ winOpen
  /\ fileOps[i].running # Null
  /\ fileOps[i].running[1].chan = chan

\* the run i goes on to "await window.mdpad.clearSession()"
awaitClearSession(i) ==
  /\ fileOps' = [fileOps EXCEPT ![i].pc = "session:clear", ![i].running = Null]
  /\ ipc' = Append(ipc, Msg("session:clear", i, 0, Null, FALSE))

\* the run i ends: a null result or a rejected call
opEnds(i) ==
  /\ fileOps' = [fileOps EXCEPT ![i] = NoOp]
  /\ UNCHANGED <<docVars, ipc, fileVars>>

\* openFile() and loadFileByPath() after a result {path, content}
openedBody(i, p) ==
  /\ currentFilePath' = Some(p)
  /\ originalContent' = disk[p][1]
  /\ doc' = disk[p][1]
  /\ isDirty' = setContentClean(FALSE)
  /\ UNCHANGED <<suppressDirty, fileVars>>
  /\ awaitClearSession(i)

\* "file:save" ends: fs.writeFile wrote the file and saveFile() resumes, or
\* it failed and the call is rejected
FileSaveDone ==
  /\ \E i \in 1..MaxFileOps, ok \in BOOLEAN :
       /\ Running(i, "file:save")
       /\ IF ok
          THEN /\ disk' = [disk EXCEPT ![fileOps[i].running[1].filePath[1]] =
                             Some(fileOps[i].running[1].content)]
               /\ originalContent' = fileOps[i].content
               /\ isDirty' = FALSE
               /\ UNCHANGED <<currentFilePath, suppressDirty, doc, backupFile, sessionFile>>
               /\ awaitClearSession(i)
          ELSE opEnds(i)
  /\ UNCHANGED <<closeVars, diffVars, autosaveVars, instanceVars, view>>

SaveDialogResults == {Null} \cup {Some(p) : p \in Paths}

\* "file:saveAs" ends: the dialog was cancelled, or the file was written and
\* saveFileAs() resumes, or the write failed
FileSaveAsDone ==
  /\ \E i \in 1..MaxFileOps, r \in SaveDialogResults, ok \in BOOLEAN :
       /\ Running(i, "file:saveAs")
       /\ IF r # Null /\ ok
          THEN /\ disk' = [disk EXCEPT ![r[1]] = Some(fileOps[i].running[1].content)]
               /\ currentFilePath' = r
               /\ originalContent' = fileOps[i].content
               /\ isDirty' = FALSE
               /\ UNCHANGED <<suppressDirty, doc, backupFile, sessionFile>>
               /\ awaitClearSession(i)
          ELSE opEnds(i)
  /\ UNCHANGED <<closeVars, diffVars, autosaveVars, instanceVars, view>>

\* "file:open" ends: the dialog was cancelled or the file was read
FileOpenDone ==
  /\ \E i \in 1..MaxFileOps, r \in SaveDialogResults :
       /\ Running(i, "file:open")
       /\ IF r # Null /\ disk[r[1]] # Null
          THEN openedBody(i, r[1])
          ELSE opEnds(i)
  /\ UNCHANGED <<closeVars, diffVars, autosaveVars, instanceVars, view>>

\* performRestore(rec) after the await of openFileByPath(rec.filePath):
\* orig is null or the file's content
restoredBody(i, orig) ==
  /\ originalContent' = IF orig # Null THEN orig[1] ELSE originalContent
  /\ isDirty' = TRUE
  /\ fileOps' = [fileOps EXCEPT ![i] = NoOp]
  /\ UNCHANGED <<currentFilePath, suppressDirty, doc, ipc, fileVars>>

\* the records the recovery dialog offers: content, filePath and, for an
\* autosave backup, a non-empty originalContent
Recoveries ==
  [content : Contents, filePath : SaveDialogResults,
   originalContent : {Null} \cup {Some(c) : c \in Contents \ {0}}]

\* performRestore(rec) of the run i up to its await or its end: the content
\* is set inside suppressDirty = true; the original content is the stored
\* one, or is read from rec.filePath after an await, or is empty
performRestore(i, rec, q) ==
  /\ currentFilePath' = rec.filePath
  /\ doc' = rec.content
  /\ UNCHANGED suppressDirty
  /\ IF rec.originalContent # Null
     THEN /\ originalContent' = rec.originalContent[1]
          /\ isDirty' = TRUE
          /\ fileOps' = [fileOps EXCEPT ![i] = NoOp]
          /\ ipc' = q
     ELSE IF rec.filePath # Null
     THEN /\ isDirty' = onEditorChange(TRUE, isDirty)
          /\ UNCHANGED originalContent
          /\ fileOps' = [fileOps EXCEPT ![i] =
               Await("restore", "file:openByPath", "body", rec.content)]
          /\ ipc' = Append(q, Msg("file:openByPath", i, 0, rec.filePath, FALSE))
     ELSE /\ originalContent' = 0
          /\ isDirty' = TRUE
          /\ fileOps' = [fileOps EXCEPT ![i] = NoOp]
          /\ ipc' = q

\* doRestore() with the content known: a dirty document is replaced only
\* when the user confirms (showConfirmReplaceDialog)
confirmRestore(i, rec, confirmed) ==
  IF isDirty /\ ~confirmed
  THEN /\ fileOps' = [fileOps EXCEPT ![i] = NoOp]
       /\ UNCHANGED <<docVars, ipc>>
  ELSE performRestore(i, rec, ipc)

\* the content of the file at path as doRestore() takes it: an unreadable
\* or empty file leaves the content empty
ReadForRestore(path) == IF disk[path] # Null THEN disk[path][1] ELSE 0

\* "file:openByPath" ends: the file was read, or null when it cannot be read
FileOpenByPathDone ==
  /\ \E i \in 1..MaxFileOps, confirmed \in BOOLEAN :
       /\ Running(i, "file:openByPath")
       /\ IF fileOps[i].kind = "restore"
          THEN restoredBody(i, disk[fileOps[i].running[1].filePath[1]])
          ELSE IF fileOps[i].kind = "doRestore"
          THEN /\ confirmRestore(i,
                    [content |-> ReadForRestore(fileOps[i].running[1].filePath[1]),
                     filePath |-> fileOps[i].running[1].filePath,
                     originalContent |-> fileOps[i].orig],
                    confirmed)
               /\ UNCHANGED fileVars
          ELSE IF disk[fileOps[i].running[1].filePath[1]] # Null
          THEN openedBody(i, fileOps[i].running[1].filePath[1])
          ELSE opEnds(i)
  /\ UNCHANGED <<closeVars, diffVars, autosaveVars, instanceVars, view>>

\* Restore Selected in the recovery dialog: doRestore(). An entry with empty
\* content and a file path is first read from its file; then
\* performRestore(selected)
PerformRestore ==
  /\ \E i \in 1..MaxFileOps, rec \in Recoveries, confirmed \in BOOLEAN :
       /\ CanStart(i)
       /\ IF rec.content = 0 /\ rec.filePath # Null
          THEN /\ fileOps' = [fileOps EXCEPT ![i] =
                    [Await("doRestore", "file:openByPath", "body", 0)
                       EXCEPT !.orig = rec.originalContent]]
               /\ ipc' = Append(ipc, Msg("file:openByPath", i, 0, rec.filePath, FALSE))
               /\ UNCHANGED docVars
          ELSE confirmRestore(i, rec, confirmed)
  /\ UNCHANGED <<closeVars, fileVars, diffVars, autosaveVars, instanceVars, view>>

DirtyInit == DiffIdle /\ AppInit

DirtyNext ==
  \/ Edit
  \/ NewFile
  \/ OpenFile
  \/ SaveFile
  \/ SaveFileAs
  \/ LoadFileByPath
  \/ PerformRestore
  \/ HandleFileCall
  \/ FileSaveDone
  \/ FileSaveAsDone
  \/ FileOpenDone
  \/ FileOpenByPathDone
  \/ HandleSessionClear
  \/ HandleAutosaveClear

DirtySpec == DirtyInit /\ [][DirtyNext]_vars

\* ---------------------------------------------------------------------------
\* Close protection: win.on("close") in main, showCloseDialog in the renderer
\* ---------------------------------------------------------------------------

\* the close events of one window
MaxCloseEvents == 1

\* a run of the close handler: where it is, and its locals state, result,
\* saveResult.filePath, content and the err of its catch block
CloseHandler(pc) ==
  [pc |-> pc,
   state |-> [isDirty |-> FALSE, hasFilePath |-> FALSE, filePath |-> <<>>],
   result |-> "none", savePath |-> <<>>, content |-> 0, err |-> "none"]

SetHandler(k, h) == closeHandlers' = [closeHandlers EXCEPT ![k] = h]

Handlers == 1..Len(closeHandlers)

\* the backup file saveResumeBackup and saveAutosaveBackup write
BackupData(content, filePath, dirty) ==
  [content |-> content, filePath |-> filePath, isDirty |-> dirty]

\* the application is asked to quit: app.on("before-quit")
BeforeQuit ==
  /\ winOpen
  /\ ~forceQuit
  /\ forceQuit' = TRUE
  /\ UNCHANGED <<overlay, windowForceQuit, closeDialogResolve, closeHandlers, winOpen>>
  /\ UNCHANGED <<showDialogMsgs, dialogResultMsgs, docVars, opVars, fileVars, diffVars, autosaveVars, instanceVars, view>>

\* the window is asked to close (title bar, File > Exit, win.close()): the
\* handler up to its first await; it returns without preventDefault when
\* the close was confirmed before, and the window then goes on to close
CloseRequested ==
  /\ winOpen
  /\ Len(closeHandlers) < MaxCloseEvents
  /\ closeHandlers' = Append(closeHandlers,
       CloseHandler(IF forceQuit \/ windowForceQuit THEN "returned" ELSE "askState"))
  /\ UNCHANGED <<overlay, windowForceQuit, forceQuit, closeDialogResolve, winOpen>>
  /\ UNCHANGED <<showDialogMsgs, dialogResultMsgs, docVars, opVars, fileVars, diffVars, autosaveVars, instanceVars, view>>

\* the renderer evaluates window.__mdpadGetCloseState() for the handler k
CloseStateEvaluated ==
  /\ winOpen
  /\ \E k \in Handlers :
       /\ closeHandlers[k].pc = "askState"
       /\ SetHandler(k, [closeHandlers[k] EXCEPT !.pc = "stateReply",
                                                 !.state = __mdpadGetCloseState])
  /\ UNCHANGED <<overlay, windowForceQuit, forceQuit, closeDialogResolve, winOpen>>
  /\ UNCHANGED <<showDialogMsgs, dialogResultMsgs, docVars, opVars, fileVars, diffVars, autosaveVars, instanceVars, view>>

\* catch (err): "If communication fails, allow close"
catchClose(k, err) ==
  /\ windowForceQuit' = TRUE
  /\ UNCHANGED winOpen
  /\ SetHandler(k, [closeHandlers[k] EXCEPT !.pc = "caught", !.err = err])

\* webContents.executeJavaScript is rejected: the catch block closes
ExecuteJavaScriptFails ==
  /\ winOpen
  /\ \E k \in Handlers :
       /\ closeHandlers[k].pc \in {"askState", "askContent"}
       /\ catchClose(k, "executeJavaScript")
  /\ UNCHANGED <<overlay, forceQuit, closeDialogResolve>>
  /\ UNCHANGED <<showDialogMsgs, dialogResultMsgs, docVars, opVars, fileVars, diffVars, autosaveVars, instanceVars, view>>

\* windowForceQuit = true; clearSession(); clearAutosaveBackup(); win.close()
confirmedClose(k, pc) ==
  /\ windowForceQuit' = TRUE
  /\ sessionFile' = Null
  /\ backupFile' = Null
  /\ UNCHANGED winOpen
  /\ SetHandler(k, [closeHandlers[k] EXCEPT !.pc = pc])

\* the handler k resumes with the close state: a clean document closes at
\* once, a dirty one has the renderer show the close dialog
CloseStateKnown ==
  /\ winOpen
  /\ \E k \in Handlers :
       /\ closeHandlers[k].pc = "stateReply"
       /\ IF ~closeHandlers[k].state.isDirty
          THEN /\ confirmedClose(k, "closedClean")
               /\ UNCHANGED <<closeDialogResolve, showDialogMsgs>>
          ELSE /\ closeDialogResolve' = Some(k)
               /\ showDialogMsgs' = Append(showDialogMsgs, closeHandlers[k].state)
               /\ SetHandler(k, [closeHandlers[k] EXCEPT !.pc = "awaitResult"])
               /\ UNCHANGED <<windowForceQuit, winOpen, sessionFile, backupFile>>
  /\ UNCHANGED <<overlay, forceQuit, dialogResultMsgs, docVars, opVars, disk, diffVars, autosaveVars, instanceVars, view>>

\* the renderer receives "close:showDialog": showCloseDialog(closeState)
ShowCloseDialog ==
  /\ winOpen
  /\ showDialogMsgs # <<>>
  /\ showDialogMsgs' = Tail(showDialogMsgs)
  /\ overlay' = IF overlay # Null THEN overlay ELSE Some(Head(showDialogMsgs))
  /\ UNCHANGED <<windowForceQuit, forceQuit, closeDialogResolve, closeHandlers, winOpen>>
  /\ UNCHANGED <<dialogResultMsgs, docVars, opVars, fileVars, diffVars, autosaveVars, instanceVars, view>>

\* the buttons of the dialog; Escape, the x button and a click outside the
\* dialog give "cancel"
DialogResults(closeState) ==
  {"cancel", "exitNoSave", "resumeSave", "saveAs"}
    \cup (IF closeState.hasFilePath THEN {"save"} ELSE {})

\* the user answers the dialog: doResult(result)
PickOption ==
  /\ winOpen
  /\ overlay # Null
  /\ \E r \in DialogResults(overlay[1]) :
       dialogResultMsgs' = Append(dialogResultMsgs, r)
  /\ overlay' = Null
  /\ UNCHANGED <<windowForceQuit, forceQuit, closeDialogResolve, closeHandlers, winOpen>>
  /\ UNCHANGED <<showDialogMsgs, docVars, opVars, fileVars, diffVars, autosaveVars, instanceVars, view>>

\* the handler k after "const result = await resultPromise", to its next
\* await or to its end
afterResult(k, r) ==
  IF r = "exitNoSave"
  THEN /\ windowForceQuit' = TRUE
       /\ sessionFile' = Null
       /\ backupFile' = Null
       /\ UNCHANGED winOpen
       /\ SetHandler(k, [closeHandlers[k] EXCEPT !.result = r, !.pc = "closed"])
  ELSE /\ SetHandler(k, [closeHandlers[k] EXCEPT
            !.result = r,
            !.pc = IF r \in {"save", "resumeSave"} THEN "askContent"
                   ELSE IF r = "saveAs" THEN "saveDialog"
                   ELSE "ended"])
       /\ UNCHANGED <<windowForceQuit, winOpen, sessionFile, backupFile>>

\* ipcMain.on("close:dialogResult"): resolves the promise of the handler
\* that set closeDialogResolve last
DialogResult ==
  /\ winOpen
  /\ dialogResultMsgs # <<>>
  /\ dialogResultMsgs' = Tail(dialogResultMsgs)
  /\ IF closeDialogResolve # Null
     THEN /\ closeDialogResolve' = Null
          /\ afterResult(closeDialogResolve[1], Head(dialogResultMsgs))
     ELSE UNCHANGED <<closeDialogResolve, windowForceQuit, winOpen, sessionFile,
                      backupFile, closeHandlers>>
  /\ UNCHANGED <<overlay, forceQuit, showDialogMsgs, docVars, opVars, disk, diffVars, autosaveVars, instanceVars, view>>

\* dialog.showSaveDialog of the handler k ends: cancelled, or a path chosen
CloseSaveDialogDone ==
  /\ winOpen
  /\ \E k \in Handlers, r \in SaveDialogResults :
       /\ closeHandlers[k].pc = "saveDialog"
       /\ SetHandler(k, [closeHandlers[k] EXCEPT
            !.savePath = r,
            !.pc = IF r = Null THEN "ended" ELSE "askContent"])
  /\ UNCHANGED <<overlay, windowForceQuit, forceQuit, closeDialogResolve, winOpen>>
  /\ UNCHANGED <<showDialogMsgs, dialogResultMsgs, docVars, opVars, fileVars, diffVars, autosaveVars, instanceVars, view>>

\* the renderer evaluates window.__mdpadGetContent() for the handler k
CloseContentEvaluated ==
  /\ winOpen
  /\ \E k \in Handlers :
       /\ closeHandlers[k].pc = "askContent"
       /\ SetHandler(k, [closeHandlers[k] EXCEPT !.pc = "contentReply",
                                                 !.content = doc])
  /\ UNCHANGED <<overlay, windowForceQuit, forceQuit, closeDialogResolve, winOpen>>
  /\ UNCHANGED <<showDialogMsgs, dialogResultMsgs, docVars, opVars, fileVars, diffVars, autosaveVars, instanceVars, view>>

\* the path the handler writes to: state.filePath, which is null for a
\* document without a file, or saveResult.filePath
WritePath(h) == IF h.result = "save" THEN h.state.filePath ELSE h.savePath

\* the handler k resumes with the content. Save and Save As: fs.writeFileSync,
\* whose exception the catch block takes; resume save: saveResumeBackup,
\* which ignores a failed write. ok: the write succeeds; writeFileSync
\* throws for the path null
CloseContentKnown ==
  /\ winOpen
  /\ \E k \in Handlers, ok \in BOOLEAN :
       /\ closeHandlers[k].pc = "contentReply"
       /\ IF closeHandlers[k].result = "resumeSave"
          THEN /\ backupFile' =
                    IF ok THEN Some(BackupData(closeHandlers[k].content,
                                               closeHandlers[k].state.filePath, TRUE))
                    ELSE backupFile
               /\ windowForceQuit' = TRUE
               /\ sessionFile' = Null
               /\ UNCHANGED winOpen
               /\ SetHandler(k, [closeHandlers[k] EXCEPT !.pc = "closed"])
               /\ UNCHANGED disk
          ELSE IF ok /\ WritePath(closeHandlers[k]) # Null
          THEN /\ disk' = [disk EXCEPT ![WritePath(closeHandlers[k])[1]] =
                             Some(closeHandlers[k].content)]
               /\ confirmedClose(k, "closed")
          ELSE /\ catchClose(k, "writeFileSync")
               /\ UNCHANGED fileVars
  /\ UNCHANGED <<overlay, forceQuit, closeDialogResolve>>
  /\ UNCHANGED <<showDialogMsgs, dialogResultMsgs, docVars, opVars, diffVars, autosaveVars, instanceVars, view>>

\* a close of the window is under way: win.close() was called with
\* windowForceQuit set, or a close event was let through
ClosePending ==
  windowForceQuit \/ \E k \in Handlers : closeHandlers[k].pc = "returned"

\* the close that was let through ends: the page is unloaded and the window
\* destroyed. Until then the renderer and main go on running
WindowDestroyed ==
  /\ winOpen
  /\ ClosePending
  /\ winOpen' = FALSE
  /\ UNCHANGED <<overlay, windowForceQuit, forceQuit, closeDialogResolve, closeHandlers>>
  /\ UNCHANGED <<showDialogMsgs, dialogResultMsgs, docVars, opVars, fileVars, diffVars, autosaveVars, instanceVars, view>>

CloseInit == DiffIdle /\ AppInit

CloseNext ==
  \/ Edit
  \/ LoadFileByPath
  \/ HandleFileCall
  \/ FileOpenByPathDone
  \/ HandleSessionClear
  \/ HandleAutosaveClear
  \/ BeforeQuit
  \/ CloseRequested
  \/ CloseStateEvaluated
  \/ ExecuteJavaScriptFails
  \/ CloseStateKnown
  \/ ShowCloseDialog
  \/ PickOption
  \/ DialogResult
  \/ CloseSaveDialogDone
  \/ CloseContentEvaluated
  \/ CloseContentKnown
  \/ WindowDestroyed

CloseSpec == CloseInit /\ [][CloseNext]_vars

\* ---------------------------------------------------------------------------
\* C17: close protection
\* ---------------------------------------------------------------------------

\* the action of the option picked in the close handler h has completed
OptionCompleted(h) ==
  /\ h.pc = "closed"
  /\ \/ /\ h.result \in {"save", "saveAs"}
        /\ WritePath(h) # Null
        /\ disk[WritePath(h)[1]] = Some(h.content)
     \/ /\ h.result = "resumeSave"
        /\ backupFile = Some(BackupData(h.content, h.state.filePath, TRUE))
     \/ h.result = "exitNoSave"

\* C17: a window whose document has unsaved changes is closed only when the
\* user has picked an option of the close dialog and the option's action has
\* completed: the content is in the file (Save, Save As), the resume backup
\* is written, or the option was Exit without saving.
C17_ClosesOnlyAfterChosenAction ==
  (closeHandlers # <<>> /\ ~winOpen /\ isDirty)
    => \E k \in Handlers : OptionCompleted(closeHandlers[k])

\* C17 for the option Save: when the window has closed in the handler in which
\* the user picked Save, and the renderer answered every request of the
\* handler, the file of the document holds the content.
C17_SavePickedThenWritten ==
  \A k \in Handlers :
    (~winOpen /\ closeHandlers[k].result = "save"
       /\ closeHandlers[k].pc \in {"closed", "caught"}
       /\ closeHandlers[k].err # "executeJavaScript")
      => /\ closeHandlers[k].state.filePath # Null
         /\ disk[closeHandlers[k].state.filePath[1]] = Some(closeHandlers[k].content)

\* C17 for the option Save for resume & exit: the window closes only with
\* the backup written.
C17_ResumePickedThenBackup ==
  \A k \in Handlers :
    (~winOpen /\ closeHandlers[k].result = "resumeSave"
       /\ closeHandlers[k].pc = "closed")
      => backupFile = Some(BackupData(closeHandlers[k].content,
                                      closeHandlers[k].state.filePath, TRUE))

\* C17, second half: the step in which the close handler takes the answer
\* "cancel" or a cancelled Save As dialog leaves the window open and the
\* content and the dirty state as they are.
C17_CancelKeepsWindowOpen ==
  [][\A k \in 1..MaxCloseEvents :
       (/\ k <= Len(closeHandlers)
        /\ closeHandlers[k].pc \in {"awaitResult", "saveDialog"}
        /\ closeHandlers'[k].pc = "ended")
         => (winOpen' /\ doc' = doc /\ isDirty' = isDirty)]_vars

\* a dirty window stayed open after a cancel
C17_WitnessCancelled ==
  /\ winOpen
  /\ isDirty
  /\ \E k \in Handlers : closeHandlers[k].pc = "ended"

\* a window closed after a Save that wrote the file
C17_WitnessSaved ==
  /\ ~winOpen
  /\ \E k \in Handlers :
       /\ closeHandlers[k].result = "save"
       /\ OptionCompleted(closeHandlers[k])

\* ---------------------------------------------------------------------------
\* C18: the dirty flag
\* ---------------------------------------------------------------------------

\* a run of newFile, openFile or loadFileByPath has just set the content
ContentSetByOperation ==
  \E i \in 1..MaxFileOps :
    /\ fileOps'[i].phase = "body"
    /\ fileOps'[i].pc = "session:clear"
    /\ fileOps[i].pc # "session:clear"

\* performRestore has set the content and awaits the original content
ContentSetByRestore ==
  \E i \in 1..MaxFileOps :
    /\ fileOps[i].kind = "none"
    /\ fileOps'[i].kind = "restore"

\* the steps in which saveFile, saveFileAs, newFile, openFile or
\* loadFileByPath goes on after the result of its call
OperationCompletes ==
  \/ FileSaveDone
  \/ FileSaveAsDone
  \/ FileOpenDone
  \/ FileOpenByPathDone
  \/ NewFile
  \/ HandleAutosaveClear

\* C18: every edit of the user leaves __mdpadGetCloseState().isDirty true, and
\* it stays true until a save, new-file, open-file or load operation
\* completes; the content that new, open, load and restore set does not mark
\* the document dirty through the change handler; hasFilePath becomes true
\* only when the document is saved to, opened from or restored with a file.
C18_DirtyFlag ==
  [][/\ Edit => __mdpadGetCloseState.isDirty'
     /\ (__mdpadGetCloseState.isDirty /\ ~__mdpadGetCloseState.isDirty')
          => OperationCompletes
     /\ ContentSetByOperation => ~isDirty'
     /\ ContentSetByRestore => (isDirty' = isDirty)
     /\ (~__mdpadGetCloseState.hasFilePath /\ __mdpadGetCloseState.hasFilePath')
          => (FileSaveAsDone \/ FileOpenDone \/ FileOpenByPathDone \/ PerformRestore)
    ]_vars

\* an edited document without a file: dirty, hasFilePath false
C18_Witness ==
  /\ winOpen
  /\ __mdpadGetCloseState.isDirty
  /\ ~__mdpadGetCloseState.hasFilePath
  /\ doc # originalContent

\* a file was opened: the document is clean and has a file path
C18_WitnessOpened ==
  /\ winOpen
  /\ ~__mdpadGetCloseState.isDirty
  /\ __mdpadGetCloseState.hasFilePath
  /\ doc = 1
  /\ \E i \in 1..MaxFileOps : fileOps[i].kind = "open" /\ fileOps[i].pc = "session:clear"

\* an edit made while saveFile awaited its call: the completed save reports
\* the document clean although the file holds the older content
C18_WitnessEditDuringSave ==
  /\ winOpen
  /\ ~isDirty
  /\ currentFilePath # Null
  /\ disk[currentFilePath[1]] # Some(doc)
  /\ \E i \in 1..MaxFileOps : fileOps[i].kind = "save" /\ fileOps[i].pc = "session:clear"

\* ---------------------------------------------------------------------------
\* Autosave: startAutosaveTimer in the renderer, autosave-manager.js in main
\* ---------------------------------------------------------------------------

\* the setInterval handles that can be told apart
MaxTimers == 2

\* the calls of the renderer that main has not received, at most
MaxIpc == 2

TimerIds == 1..MaxTimers

\* the intervals of the Autosave menu that are told apart: OFF, 1 and 5 minutes
AutosaveChoices == {0, 1, 5}

\* an "autosave:getMinutes" or "autosave:setMinutes" call
MinutesMsg(chan, minutes) == [chan |-> chan, op |-> 0, minutes |-> minutes]

\* Math.max(0, Math.min(60, Math.round(minutes)))
ClampMinutes(minutes) ==
  IF minutes < 0 THEN 0 ELSE IF minutes > 60 THEN 60 ELSE minutes

\* the timers left by "if (autosaveTimer) clearInterval(autosaveTimer)"
ClearedTimers ==
  IF autosaveTimer # Null THEN timers \ {autosaveTimer[1]} ELSE timers

\* the handle setInterval returns: one that no live timer has
NewTimer(live) ==
  IF live = TimerIds THEN MaxTimers
  ELSE CHOOSE t \in TimerIds \ live : \A u \in TimerIds \ live : t <= u

\* startAutosaveTimer() with autosaveMinutes = minutes
startAutosaveTimer(minutes) ==
  IF minutes <= 0
  THEN /\ timers' = ClearedTimers
       /\ autosaveTimer' = Null
  ELSE /\ timers' = ClearedTimers \cup {NewTimer(ClearedTimers)}
       /\ autosaveTimer' = Some(NewTimer(ClearedTimers))

\* the renderer has just called getAutosaveMinutes() in its initialisation;
\* main has loaded an interval from the configuration
AutosaveInit ==
  /\ DiffIdle
  /\ WindowInit
  /\ ipc = <<MinutesMsg("autosave:getMinutes", 0)>>
  /\ autosaveMinutes = 0
  /\ autosaveTimer = Null
  /\ timers = {}
  /\ mainAutosaveMinutes \in AutosaveChoices

\* "autosave:getMinutes" is answered and the initialisation resumes:
\* autosaveMinutes = <reply>; startAutosaveTimer()
HandleGetMinutes ==
  /\ Received("autosave:getMinutes")
  /\ ipc' = Tail(ipc)
  /\ autosaveMinutes' = mainAutosaveMinutes
  /\ startAutosaveTimer(mainAutosaveMinutes)
  /\ UNCHANGED <<mainAutosaveMinutes, docVars, closeVars, fileOps, fileVars, diffVars, instanceVars, view>>

\* the menu action "setAutosave:<minutes>" up to its await
SetAutosave ==
  /\ winOpen
  /\ Len(ipc) < MaxIpc
  /\ \E minutes \in AutosaveChoices :
       /\ autosaveMinutes' = minutes
       /\ ipc' = Append(ipc, MinutesMsg("autosave:setMinutes", minutes))
  /\ UNCHANGED <<autosaveTimer, timers, mainAutosaveMinutes>>
  /\ UNCHANGED <<docVars, closeVars, fileOps, fileVars, diffVars, instanceVars, view>>

\* "autosave:setMinutes": setAutosaveMinutes(minutes) in main, then the menu
\* action resumes with startAutosaveTimer()
HandleSetMinutes ==
  /\ Received("autosave:setMinutes")
  /\ ipc' = Tail(ipc)
  /\ mainAutosaveMinutes' = ClampMinutes(Head(ipc).minutes)
  /\ startAutosaveTimer(autosaveMinutes)
  /\ UNCHANGED <<autosaveMinutes, docVars, closeVars, fileOps, fileVars, diffVars, instanceVars, view>>

\* a timer of startAutosaveTimer fires: if (isDirty) performAutosaveBackup()
AutosaveTimerFires ==
  /\ winOpen
  /\ timers # {}
  /\ Len(ipc) < MaxIpc
  /\ ipc' = IF isDirty
            THEN Append(ipc, Msg("autosave:save", 0, doc, currentFilePath, isDirty))
            ELSE ipc
  /\ UNCHANGED <<autosaveVars, docVars, closeVars, fileOps, fileVars, diffVars, instanceVars, view>>

\* "autosave:save": saveAutosaveBackup(data), which returns when autosave is
\* OFF and ignores a failed write. ok: the write succeeds
HandleAutosaveSave ==
  /\ Received("autosave:save")
  /\ ipc' = Tail(ipc)
  /\ \E ok \in BOOLEAN :
       backupFile' =
         IF mainAutosaveMinutes # 0 /\ ok
         THEN Some(BackupData(Head(ipc).content, Head(ipc).filePath, Head(ipc).isDirty))
         ELSE backupFile
  /\ UNCHANGED <<autosaveVars, docVars, closeVars, fileOps, disk, sessionFile, diffVars, instanceVars, view>>

AutosaveNext ==
  \/ Edit
  \/ SaveFile
  \/ HandleFileCall
  \/ FileSaveDone
  \/ FileSaveAsDone
  \/ HandleSessionClear
  \/ HandleAutosaveClear
  \/ HandleGetMinutes
  \/ SetAutosave
  \/ HandleSetMinutes
  \/ AutosaveTimerFires
  \/ HandleAutosaveSave

AutosaveSpec == AutosaveInit /\ [][AutosaveNext]_vars

\* ---------------------------------------------------------------------------
\* C19: the autosave timer
\* ---------------------------------------------------------------------------

\* the interval is OFF for the renderer or for main
IntervalOff == autosaveMinutes = 0 \/ mainAutosaveMinutes = 0

\* no change of the interval is under way: the initialisation and every
\* menu action have run to their end
IntervalSettled ==
  \A n \in 1..Len(ipc) :
    ipc[n].chan \notin {"autosave:getMinutes", "autosave:setMinutes"}

\* C19: an autosave backup is written by the timer only when the document is
\* dirty at the moment the timer fires and the interval is not OFF; with the
\* interval OFF no autosave timer runs; at most one autosave timer exists;
\* a clean document never produces a backup file.
C19_AutosaveTimer ==
  /\ IntervalOff => timers = {}
  /\ Cardinality(timers) <= 1
  /\ backupFile # Null => backupFile[1].isDirty

\* C19, second clause, once every change of the interval has run to its end:
\* with the interval OFF in main no autosave timer runs.
C19_NoTimerWhenOffSettled ==
  (IntervalSettled /\ mainAutosaveMinutes = 0) => timers = {}

\* C19, the clauses about the backup file: the timer sends a backup only of a
\* dirty document, main writes a backup only with its interval not OFF, and
\* the backup file always is that of a dirty document.
C19_BackupOnlyDirtyAndOn ==
  [][/\ (Len(ipc') > Len(ipc) /\ ipc'[Len(ipc')].chan = "autosave:save")
          => (isDirty /\ ipc'[Len(ipc')].isDirty /\ timers # {})
     /\ (backupFile' # backupFile /\ backupFile' # Null)
          => (mainAutosaveMinutes # 0 /\ backupFile'[1].isDirty)
    ]_vars

\* C19, third clause: at most one autosave timer exists, and it is the one
\* autosaveTimer holds.
C19_AtMostOneTimer ==
  /\ Cardinality(timers) <= 1
  /\ timers = (IF autosaveTimer = Null THEN {} ELSE {autosaveTimer[1]})

\* the timer fired on a dirty document and main wrote the backup
C19_Witness ==
  /\ winOpen
  /\ timers # {}
  /\ backupFile # Null
  /\ backupFile[1].isDirty

\* the interval was set to OFF after a timer ran: no timer is left
C19_WitnessOff ==
  /\ IntervalSettled
  /\ autosaveMinutes = 0
  /\ mainAutosaveMinutes = 0
  /\ timers = {}
  /\ backupFile # Null

\* ---------------------------------------------------------------------------
\* Several instances: each a process with its pid, one userData directory
\* ---------------------------------------------------------------------------

\* the process ids
MaxPids == 2

Pids == 1..MaxPids

Kinds == {"session", "autosave"}

\* session-<pid>.json in userData/sessions, autosave-<pid>.json in
\* userData/autosave
FileOf(kind, pid) == <<kind, pid>>

\* the pid a scan reads from a file name
PidOf(file) == file[2]

Files == {FileOf(kind, pid) : kind \in Kinds, pid \in Pids}

\* process.kill(pid, 0) called by the instance self: it returns ("ok") for a
\* process self may signal, and throws ESRCH for no process and EPERM for
\* a process self may not signal
ProcessKill0(self, pid) ==
  IF pid \notin running THEN "ESRCH"
  ELSE IF pid \in elevated /\ self \notin elevated THEN "EPERM"
  ELSE "ok"

\* isProcessRunning(pid): try { process.kill(pid, 0); return true }
\* catch { return false }
isProcessRunning(self, pid) == ProcessKill0(self, pid) = "ok"

InstancesInit ==
  /\ DiffIdle
  /\ AppIdleWindow
  /\ running = {}
  /\ elevated = {}
  /\ userData = [f \in Files |-> "none"]
  /\ offered = [p \in Pids |-> {}]
  /\ lastCall = [pid |-> 0, fn |-> "none"]
  /\ recovery = Null

Call(self, fn) == lastCall' = [pid |-> self, fn |-> fn]

\* an instance starts as the process pid; the operating system may give it
\* a pid that an ended process had
StartInstance ==
  /\ \E pid \in Pids \ running, high \in BOOLEAN :
       /\ running' = running \cup {pid}
       /\ elevated' = IF high THEN elevated \cup {pid} ELSE elevated
       /\ offered' = [offered EXCEPT ![pid] = {}]
       /\ Call(pid, "start")
  /\ UNCHANGED <<userData, recovery, diffVars, appVars, view>>

\* an instance ends: it quits, or it crashes, and a crash may leave a file
\* it was writing unreadable
EndInstance ==
  /\ \E pid \in running, torn \in SUBSET Kinds :
       /\ running' = running \ {pid}
       /\ elevated' = elevated \ {pid}
       /\ offered' = [offered EXCEPT ![pid] = {}]
       /\ userData' = [f \in Files |->
            IF PidOf(f) = pid /\ f[1] \in torn /\ userData[f] = "ok"
            THEN "corrupt" ELSE userData[f]]
       /\ recovery' = IF recovery # Null /\ recovery[1].pid = pid THEN Null ELSE recovery
       /\ Call(pid, "end")
  /\ UNCHANGED <<diffVars, appVars, view>>

\* fs.writeFileSync(file, ...) inside try/catch: ok, or the error is ignored
WriteFile(file, ok) ==
  userData' = IF ok THEN [userData EXCEPT ![file] = "ok"] ELSE userData

\* fs.unlinkSync(file) of an existing file
UnlinkFile(file) == userData' = [userData EXCEPT ![file] = "none"]

\* saveSession(data) of session-manager.js
SaveSession ==
  /\ \E self \in running, ok \in BOOLEAN :
       /\ WriteFile(FileOf("session", self), ok)
       /\ Call(self, "saveSession")
  /\ UNCHANGED <<running, elevated, offered, recovery, diffVars, appVars, view>>

\* clearSession() of main.js
ClearSession ==
  /\ \E self \in running :
       /\ UnlinkFile(FileOf("session", self))
       /\ Call(self, "clearSession")
  /\ UNCHANGED <<running, elevated, offered, recovery, diffVars, appVars, view>>

\* saveAutosaveBackup(data) and saveResumeBackup(data)
SaveAutosaveBackup ==
  /\ \E self \in running, ok \in BOOLEAN :
       /\ WriteFile(FileOf("autosave", self), ok)
       /\ Call(self, "saveAutosaveBackup")
  /\ UNCHANGED <<running, elevated, offered, recovery, diffVars, appVars, view>>

\* clearAutosaveBackup()
ClearAutosaveBackup ==
  /\ \E self \in running :
       /\ UnlinkFile(FileOf("autosave", self))
       /\ Call(self, "clearAutosaveBackup")
  /\ UNCHANGED <<running, elevated, offered, recovery, diffVars, appVars, view>>

\* the files of the kind that a scan of self takes for orphans: not its own
\* and not of a process isProcessRunning reports
Orphans(self, kind) ==
  {f \in Files : /\ f[1] = kind
                 /\ userData[f] # "none"
                 /\ PidOf(f) # self
                 /\ ~isProcessRunning(self, PidOf(f))}

\* the scan of self: the readable orphans are returned, the unreadable ones
\* are removed
scan(self, kind) ==
  /\ offered' = [offered EXCEPT ![self] =
       {f \in @ : f[1] # kind}
         \cup {f \in Orphans(self, kind) : userData[f] = "ok"}]
  /\ userData' = [f \in Files |->
       IF f \in Orphans(self, kind) /\ userData[f] = "corrupt"
       THEN "none" ELSE userData[f]]

\* loadRecoverySessions() of main.js
LoadRecoverySessions ==
  /\ \E self \in running :
       /\ scan(self, "session")
       /\ Call(self, "loadRecoverySessions")
  /\ UNCHANGED <<running, elevated, recovery, diffVars, appVars, view>>

\* loadOrphanedAutosaves()
LoadOrphanedAutosaves ==
  /\ \E self \in running :
       /\ scan(self, "autosave")
       /\ Call(self, "loadOrphanedAutosaves")
  /\ UNCHANGED <<running, elevated, recovery, diffVars, appVars, view>>

\* removeOrphanedBackup(path) for a file the recovery dialog of self offers
RemoveOrphanedBackup ==
  /\ \E self \in running, f \in Files :
       /\ f \in offered[self]
       /\ UnlinkFile(f)
       /\ offered' = [offered EXCEPT ![self] = @ \ {f}]
       /\ Call(self, "removeOrphanedBackup")
  /\ UNCHANGED <<running, elevated, recovery, diffVars, appVars, view>>

\* the recovery dialog of the instance pid: the files gatherRecoveries()
\* detected, the entries still listed, the entry restored, and where the
\* dialog is: "gathering" between the two scans, "open", "dismissed" (Later,
\* the x button, Escape, or no entry left) or "restored"
Modal(pid, detected, entries, restored, state) ==
  [pid |-> pid, detected |-> detected, entries |-> entries,
   restored |-> restored, state |-> state]

\* checkRecovery() and File > Restore from Backup: gatherRecoveries() up to
\* its second await, "await window.mdpad.getRecoverySessions()" answered
GatherSessions ==
  /\ recovery = Null
  /\ \E self \in running :
       /\ scan(self, "session")
       /\ Call(self, "loadRecoverySessions")
       /\ recovery' = Some(Modal(self, {}, {}, {}, "gathering"))
  /\ UNCHANGED <<running, elevated, diffVars, appVars, view>>

\* "await window.mdpad.getOrphanedAutosaves()" answered: with no entry
\* checkRecovery() returns, else showRecoveryModal(allRecoveries, autosaves)
GatherAutosaves ==
  /\ recovery # Null
  /\ recovery[1].state = "gathering"
  /\ recovery[1].pid \in running
  /\ LET self == recovery[1].pid IN
       /\ scan(self, "autosave")
       /\ Call(self, "loadOrphanedAutosaves")
       /\ recovery' = IF offered'[self] = {} THEN Null
                      ELSE Some(Modal(self, offered'[self], offered'[self], {}, "open"))
  /\ UNCHANGED <<running, elevated, diffVars, appVars, view>>

\* the dialog is open
RecoveryOpen == recovery # Null /\ recovery[1].state = "open"

\* Later, the x button or Escape: overlay.remove(); focus()
RecoveryLater ==
  /\ RecoveryOpen
  /\ recovery' = Some([recovery[1] EXCEPT !.state = "dismissed"])
  /\ Call(recovery[1].pid, "later")
  /\ UNCHANGED <<running, elevated, userData, offered, diffVars, appVars, view>>

\* Delete Selected: the file of the selected entry is removed and the entry
\* leaves the list; the dialog closes with the last entry
RecoveryDelete ==
  /\ RecoveryOpen
  /\ \E f \in recovery[1].entries :
       /\ UnlinkFile(f)
       /\ offered' = [offered EXCEPT ![recovery[1].pid] = @ \ {f}]
       /\ recovery' = Some([recovery[1] EXCEPT
            !.entries = @ \ {f},
            !.state = IF recovery[1].entries = {f} THEN "dismissed" ELSE "open"])
  /\ Call(recovery[1].pid, "deleteSelected")
  /\ UNCHANGED <<running, elevated, diffVars, appVars, view>>

\* Restore Selected, Enter or a double click: doRestore() after
\* performRestore(selected): "Cleanup only the restored backup (not all
\* orphans)", then overlay.remove()
RecoveryRestore ==
  /\ RecoveryOpen
  /\ \E f \in recovery[1].entries :
       /\ UnlinkFile(f)
       /\ offered' = [offered EXCEPT ![recovery[1].pid] = @ \ {f}]
       /\ recovery' = Some([recovery[1] EXCEPT !.restored = {f}, !.state = "restored"])
  /\ Call(recovery[1].pid, "doRestore")
  /\ UNCHANGED <<running, elevated, diffVars, appVars, view>>

\* the instance of a dialog that is no longer open calls gatherRecoveries()
\* again (File > Restore from Backup), or it is left out of view
RecoveryForgotten ==
  /\ recovery # Null
  /\ recovery[1].state \in {"dismissed", "restored"}
  /\ recovery' = Null
  /\ UNCHANGED <<running, elevated, userData, offered, lastCall, diffVars, appVars, view>>

InstancesNext ==
  \/ StartInstance
  \/ EndInstance
  \/ SaveSession
  \/ ClearSession
  \/ SaveAutosaveBackup
  \/ ClearAutosaveBackup
  \/ LoadRecoverySessions
  \/ LoadOrphanedAutosaves
  \/ RemoveOrphanedBackup

InstancesSpec == InstancesInit /\ [][InstancesNext]_vars

\* the instances with the recovery dialog of one of them
RecoveryNext ==
  \/ StartInstance
  \/ EndInstance
  \/ SaveSession
  \/ SaveAutosaveBackup
  \/ GatherSessions
  \/ GatherAutosaves
  \/ RecoveryLater
  \/ RecoveryDelete
  \/ RecoveryRestore
  \/ RecoveryForgotten

RecoverySpec == InstancesInit /\ [][RecoveryNext]_vars

\* ---------------------------------------------------------------------------
\* C20: several instances
\* ---------------------------------------------------------------------------

\* the files the step changed
ChangedFiles == {f \in Files : userData'[f] # userData[f]}

\* the step is a call of one of the functions by some instance
Called(fns) == lastCall' # lastCall /\ lastCall'.fn \in fns

\* the files the scan of this step returned
ReturnedFiles ==
  {f \in offered'[lastCall'.pid] :
     f[1] = (IF lastCall'.fn = "loadRecoverySessions" THEN "session" ELSE "autosave")}

\* a save or clear call changes no file but the caller's own
OwnFilesOnly ==
  Called({"saveSession", "clearSession", "saveAutosaveBackup", "clearAutosaveBackup"})
    => \A f \in ChangedFiles : PidOf(f) = lastCall'.pid

\* C20: each instance writes and clears only its own session-<pid>.json and
\* autosave-<pid>.json, and a scan (loadRecoverySessions,
\* loadOrphanedAutosaves) neither returns nor deletes the file of the
\* scanning process or of a process that is still running.
C20_InstancesKeepApart ==
  [][/\ OwnFilesOnly
     /\ Called({"loadRecoverySessions", "loadOrphanedAutosaves"})
          => \A f \in ReturnedFiles \cup ChangedFiles :
               PidOf(f) # lastCall'.pid /\ PidOf(f) \notin running
    ]_vars

\* C20 for the processes the scanning instance may signal: their files and
\* the scanning instance's own are neither returned nor deleted by a scan,
\* and every save and clear call changes the caller's own file only.
C20_SignalableKeptApart ==
  [][/\ OwnFilesOnly
     /\ Called({"loadRecoverySessions", "loadOrphanedAutosaves"})
          => \A f \in ReturnedFiles \cup ChangedFiles :
               /\ PidOf(f) # lastCall'.pid
               /\ ProcessKill0(lastCall'.pid, PidOf(f)) # "ok"
    ]_vars

\* a scan has returned the file of an ended process and not the file of
\* the scanning instance
C20_Witness ==
  \E self \in running, q \in Pids \ running :
    /\ lastCall = [pid |-> self, fn |-> "loadRecoverySessions"]
    /\ FileOf("session", q) \in offered[self]
    /\ userData[FileOf("session", self)] = "ok"
    /\ FileOf("session", self) \notin offered[self]

\* a scan has left out the file of another running instance
C20_WitnessRunningSkipped ==
  \E self \in running, p \in running :
    /\ p # self
    /\ lastCall = [pid |-> self, fn |-> "loadOrphanedAutosaves"]
    /\ userData[FileOf("autosave", p)] = "ok"
    /\ FileOf("autosave", p) \notin offered[self]

\* a scan has returned the file of a running instance
C20_WitnessRunningOffered ==
  \E self \in running, p \in running :
    /\ p # self
    /\ lastCall = [pid |-> self, fn |-> "loadRecoverySessions"]
    /\ FileOf("session", p) \in offered[self]

\* ---------------------------------------------------------------------------
\* C22: the files of the recovery dialog
\* ---------------------------------------------------------------------------

\* the step closes the recovery dialog
RecoveryCloses ==
  /\ RecoveryOpen
  /\ recovery' # Null
  /\ recovery'[1].state \in {"dismissed", "restored"}

\* C22: when the recovery dialog has been dismissed, whether the user
\* restored an entry or closed the dialog without restoring, every orphaned
\* session file and backup file that was detected is removed from disk.
C22_DetectedFilesRemoved ==
  [][RecoveryCloses => \A f \in recovery[1].detected : userData'[f] = "none"]_vars

\* what the code does: Restore removes the file of the restored entry, Delete
\* Selected the file of the deleted entry, and Later, the x button and Escape
\* remove no file.
C22_OnlyChosenFileRemoved ==
  [][RecoveryOpen =>
       /\ RecoveryRestore =>
            /\ \A f \in recovery'[1].restored : userData'[f] = "none"
            /\ ChangedFiles = recovery'[1].restored
       /\ RecoveryLater => ChangedFiles = {}
       /\ RecoveryDelete => ChangedFiles = recovery[1].entries \ recovery'[1].entries
    ]_vars

\* the dialog was closed with Later and the detected file of an ended
\* instance is still on disk
C22_WitnessLater ==
  /\ recovery # Null
  /\ recovery[1].state = "dismissed"
  /\ lastCall.fn = "later"
  /\ \E f \in recovery[1].detected : userData[f] = "ok" /\ PidOf(f) \notin running

\* an entry was restored and its file removed while another detected file
\* is still on disk
C22_WitnessRestored ==
  /\ recovery # Null
  /\ recovery[1].state = "restored"
  /\ lastCall.fn = "doRestore"
  /\ \A f \in recovery[1].restored : userData[f] = "none"
  /\ \E f \in recovery[1].detected : userData[f] = "ok"

\* ---------------------------------------------------------------------------
\* One window from its start to its close, then the next launch: the close
\* handler, the two timers of the renderer, and the recovery at the start of
\* the next instance
\* ---------------------------------------------------------------------------

\* the pid of the process whose window is followed
OldPid == 1

\* the window with the document opened: an empty untitled document, or the
\* file given on the command line after loadFileByPath has run to its end
OpenedWindow ==
  /\ currentFilePath \in {Null, Some("f1")}
  /\ disk = [p \in Paths |-> IF p = "f1" THEN Some(1) ELSE Null]
  /\ originalContent = IF currentFilePath = Null THEN 0 ELSE disk["f1"][1]
  /\ doc = originalContent
  /\ isDirty = FALSE
  /\ suppressDirty = FALSE
  /\ overlay = Null
  /\ fileOps = [i \in 1..MaxFileOps |-> NoOp]
  /\ windowForceQuit = FALSE
  /\ forceQuit = FALSE
  /\ closeDialogResolve = Null
  /\ closeHandlers = <<>>
  /\ winOpen = TRUE
  /\ showDialogMsgs = <<>>
  /\ dialogResultMsgs = <<>>
  /\ backupFile = Null
  /\ sessionFile = Null
  /\ view = ViewStart
  /\ InstancesIdle

\* the renderer's initialisation has run to its end: main and the renderer
\* have the configured interval, and the autosave timer runs unless it is OFF
RelaunchInit ==
  /\ DiffIdle
  /\ OpenedWindow
  /\ ipc = <<>>
  /\ mainAutosaveMinutes \in AutosaveChoices
  /\ autosaveMinutes = mainAutosaveMinutes
  /\ autosaveTimer = IF mainAutosaveMinutes > 0 THEN Some(1) ELSE Null
  /\ timers = IF mainAutosaveMinutes > 0 THEN {1} ELSE {}

\* the session timer fires: if (isDirty) saveSessionState()
SessionTimerFires ==
  /\ winOpen
  /\ Len(ipc) < MaxIpc
  /\ ipc' = IF isDirty
            THEN Append(ipc, Msg("session:save", 0, doc, currentFilePath, isDirty))
            ELSE ipc
  /\ UNCHANGED <<autosaveVars, docVars, closeVars, fileOps, fileVars, diffVars, instanceVars, view>>

\* "session:save": saveSession(data), which ignores a failed write
HandleSessionSave ==
  /\ Received("session:save")
  /\ ipc' = Tail(ipc)
  /\ \E ok \in BOOLEAN :
       sessionFile' =
         IF ok
         THEN Some(BackupData(Head(ipc).content, Head(ipc).filePath, Head(ipc).isDirty))
         ELSE sessionFile
  /\ UNCHANGED <<autosaveVars, docVars, closeVars, fileOps, disk, backupFile, diffVars, instanceVars, view>>

\* the files the ended process leaves in userData
LeftFiles ==
  [f \in Files |->
     IF f = FileOf("autosave", OldPid) /\ backupFile # Null THEN "ok"
     ELSE IF f = FileOf("session", OldPid) /\ sessionFile # Null THEN "ok"
     ELSE "none"]

\* the window is destroyed and the application has quit (window-all-closed);
\* the application is started again as the process pid, which may be the
\* pid of the ended process, and reused: another process has that pid now
NextLaunch ==
  /\ ~winOpen
  /\ running = {}
  /\ lastCall = <<>>
  /\ \E pid \in Pids, reused \in BOOLEAN :
       /\ running' = {pid} \cup (IF reused THEN {OldPid} ELSE {})
       /\ Call(pid, "start")
  /\ elevated' = {}
  /\ userData' = LeftFiles
  /\ offered' = [p \in Pids |-> {}]
  /\ UNCHANGED <<recovery, diffVars, appVars, view>>

RelaunchNext ==
  \/ Edit
  \/ CloseRequested
  \/ CloseStateEvaluated
  \/ ExecuteJavaScriptFails
  \/ CloseStateKnown
  \/ ShowCloseDialog
  \/ PickOption
  \/ DialogResult
  \/ CloseSaveDialogDone
  \/ CloseContentEvaluated
  \/ CloseContentKnown
  \/ WindowDestroyed
  \/ AutosaveTimerFires
  \/ HandleAutosaveSave
  \/ SessionTimerFires
  \/ HandleSessionSave
  \/ NextLaunch
  \/ GatherSessions
  \/ GatherAutosaves

RelaunchSpec == RelaunchInit /\ [][RelaunchNext]_vars

\* ---------------------------------------------------------------------------
\* C21: Save for resume & exit
\* ---------------------------------------------------------------------------

\* the next instance has called gatherRecoveries() and has its answer
Gathered == running # {} /\ lastCall.fn = "loadOrphanedAutosaves"

\* the backup of the ended process is listed in the recovery dialog
BackupOffered ==
  /\ recovery # Null
  /\ recovery[1].state = "open"
  /\ FileOf("autosave", OldPid) \in recovery[1].entries

\* C21: choosing Save for resume & exit in the close dialog writes a backup
\* holding the editor content and the file path even when autosave is OFF,
\* the close that follows does not delete that backup, and at the next launch
\* the backup is found as an orphan and offered in the recovery dialog.
C21_ResumeSaveOffered ==
  \A k \in Handlers :
    (closeHandlers[k].result = "resumeSave" /\ closeHandlers[k].pc = "closed")
      => /\ ~winOpen =>
              /\ backupFile # Null
              /\ mainAutosaveMinutes = 0 =>
                   backupFile = Some(BackupData(closeHandlers[k].content,
                                                closeHandlers[k].state.filePath, TRUE))
         /\ Gathered => BackupOffered

\* C21 for a backup that is on disk when the process ends: the close event
\* that win.close() raises deletes no file, and the next instance offers the
\* backup unless it has the pid of the ended process or that pid is in use.
C21_WrittenBackupOffered ==
  /\ (Gathered /\ backupFile # Null /\ running = {2}) => BackupOffered
  /\ (running # {} /\ backupFile # Null) => userData[FileOf("autosave", OldPid)] = "ok"

\* autosave is OFF, Save for resume & exit wrote the backup, the window is
\* closed, and the next instance lists the backup in its recovery dialog
C21_Witness ==
  /\ mainAutosaveMinutes = 0
  /\ \E k \in Handlers :
       /\ closeHandlers[k].result = "resumeSave"
       /\ closeHandlers[k].pc = "closed"
       /\ closeHandlers[k].content # 0
       /\ backupFile = Some(BackupData(closeHandlers[k].content,
                                       closeHandlers[k].state.filePath, TRUE))
  /\ Gathered
  /\ BackupOffered

\* Save for resume & exit closed the window and no backup is on disk
C21_WitnessNoBackup ==
  /\ ~winOpen
  /\ backupFile = Null
  /\ \E k \in Handlers :
       closeHandlers[k].result = "resumeSave" /\ closeHandlers[k].pc = "closed"

\* ---------------------------------------------------------------------------
\* C23: the document after Restore
\* ---------------------------------------------------------------------------

\* the run i of performRestore ends in this step, after its await of
\* openFileByPath(rec.filePath)
RestoreEnds(i) ==
  /\ fileOps[i].kind = "restore"
  /\ fileOps'[i].kind = "none"

\* the run i of doRestore has read the file of its entry and goes on to
\* performRestore
RestoreReadsFile(i) ==
  /\ fileOps[i].kind = "doRestore"
  /\ Running(i, "file:openByPath")
  /\ fileOps'[i].kind # "doRestore"
  /\ ~(fileOps'[i] = NoOp /\ UNCHANGED docVars)

\* the path of the call the run i awaits
AwaitedPath(i) == fileOps[i].running[1].filePath[1]

\* the content and the file path performRestore sets for the entry rec, and
\* the original content where it needs no file
RestoredAs(rec) ==
  /\ doc' = rec.content
  /\ currentFilePath' = rec.filePath
  /\ rec.originalContent # Null => (originalContent' = rec.originalContent[1] /\ isDirty')
  /\ (rec.originalContent = Null /\ rec.filePath = Null) => (originalContent' = 0 /\ isDirty')

\* C23: after Restore of a recovery entry the editor content equals the
\* entry's content (or the content of its file when the stored content is
\* empty and the file path is known), the document is dirty, the current file
\* path is the entry's, and originalContent is the entry's stored original
\* content, otherwise the content of the entry's file, otherwise empty: it is
\* never left at the original content of the document open before.
C23_RestoredDocument ==
  [][\A i \in 1..MaxFileOps :
       /\ \A rec \in Recoveries : performRestore(i, rec, ipc) => RestoredAs(rec)
       /\ RestoreReadsFile(i) =>
            (doc' = ReadForRestore(AwaitedPath(i)) /\ currentFilePath' = Some(AwaitedPath(i)))
       /\ RestoreEnds(i) =>
            /\ isDirty'
            /\ UNCHANGED <<doc, currentFilePath>>
            /\ originalContent' = ReadForRestore(AwaitedPath(i))
    ]_vars

\* C23 as the code has it: when the entry has no stored original content and
\* its file cannot be read, originalContent stays what it was before the
\* restore.
C23_BaselineKeptWhenFileUnreadable ==
  [][\A i \in 1..MaxFileOps :
       /\ \A rec \in Recoveries : performRestore(i, rec, ipc) => RestoredAs(rec)
       /\ RestoreReadsFile(i) =>
            (doc' = ReadForRestore(AwaitedPath(i)) /\ currentFilePath' = Some(AwaitedPath(i)))
       /\ RestoreEnds(i) =>
            /\ isDirty'
            /\ UNCHANGED <<doc, currentFilePath>>
            /\ originalContent' = IF disk[AwaitedPath(i)] # Null
                                  THEN disk[AwaitedPath(i)][1] ELSE originalContent
    ]_vars

\* an entry with a stored original content was restored over a loaded file
C23_Witness ==
  /\ isDirty
  /\ doc = 2
  /\ originalContent = 1
  /\ currentFilePath = Some("f2")
  /\ disk["f2"] = Null
  /\ \A i \in 1..MaxFileOps : fileOps[i] = NoOp

\* an entry whose file cannot be read was restored over a loaded file: the
\* baseline is the loaded file's content
C23_WitnessStaleBaseline ==
  /\ isDirty
  /\ currentFilePath = Some("f2")
  /\ disk["f2"] = Null
  /\ originalContent = 1
  /\ doc = 0
  /\ \A i \in 1..MaxFileOps : fileOps[i] = NoOp

(***************************************************************************)
(* The window's panes in use: the user types, toggles panes, chooses       *)
(* layouts, modes and comparison files, and the preview's timeout fires.   *)
(***************************************************************************)
ViewInit ==
  /\ DiffIdle
  /\ OpenedWindow
  /\ ipc = <<>>
  /\ autosaveMinutes = 0
  /\ autosaveTimer = Null
  /\ timers = {}
  /\ mainAutosaveMinutes = DEFAULT_MINUTES

\* a toolbar toggle button is clicked or a toggle menu action arrives
TogglePane(name) ==
  /\ winOpen
  /\ view' = togglePane(view, name, doc, originalContent)
  /\ UNCHANGED <<diffVars, appVars, instanceVars>>

\* one of the two layout buttons of the toolbar is clicked
LayoutPreset(state) ==
  /\ winOpen
  /\ view' = setPaneState(view, state, doc, originalContent)
  /\ UNCHANGED <<diffVars, appVars, instanceVars>>

\* the timeout updatePreview set has run its 150 ms: renderCurrent()
RenderTimerFires ==
  /\ winOpen
  /\ view.renderTimer > 0
  /\ view' = [renderCurrent(view, originalContent)
                EXCEPT !.renderTimer = view.renderTimer - 1,
                       !.blocked = FALSE]
  /\ UNCHANGED <<diffVars, appVars, instanceVars>>

\* the mode select of the diff pane changes
DiffModeChanged(mode) ==
  /\ winOpen
  /\ view.paneState.diff
  /\ mode # view.diffMode
  /\ view' = _mdpadDiffUpdate([view EXCEPT !.diffMode = mode, !.blocked = FALSE],
                              doc, originalContent)
  /\ UNCHANGED <<diffVars, appVars, instanceVars>>

\* "Open File..." of the diff pane: openDiffFile() has returned result, null
\* when the dialog was cancelled
DiffFileChosen(result) ==
  /\ winOpen
  /\ view.paneState.diff
  /\ view.diffMode = "file"
  /\ view' = IF result = Null THEN [view EXCEPT !.blocked = FALSE]
             ELSE _mdpadDiffUpdate(
                    [view EXCEPT !.comparisonFileContent = result,
                                 !.blocked = FALSE],
                    doc, originalContent)
  /\ UNCHANGED <<diffVars, appVars, instanceVars>>

\* a tab of the preview pane is clicked
PreviewTabClicked(mode) ==
  /\ winOpen
  /\ view.paneState.preview
  /\ view' = renderCurrent([view EXCEPT !.previewMode = mode, !.blocked = FALSE],
                           originalContent)
  /\ UNCHANGED <<diffVars, appVars, instanceVars>>

\* the source select of the rich diff changes
DiffSourceChanged(source) ==
  /\ winOpen
  /\ view.paneState.preview
  /\ view.previewMode = "richDiff"
  /\ source # view.diffSource
  /\ view' = renderCurrent([view EXCEPT !.diffSource = source, !.blocked = FALSE],
                           originalContent)
  /\ UNCHANGED <<diffVars, appVars, instanceVars>>

\* the open-file button of the rich diff: openDiffFile() has returned result
PreviewDiffFileChosen(result) ==
  /\ winOpen
  /\ view.paneState.preview
  /\ view.previewMode = "richDiff"
  /\ view.diffSource = "file"
  /\ view' = IF result = Null THEN [view EXCEPT !.blocked = FALSE]
             ELSE renderCurrent(
                    [view EXCEPT !.diffFileContent = result, !.blocked = FALSE],
                    originalContent)
  /\ UNCHANGED <<diffVars, appVars, instanceVars>>

\* what openDiffFile() returns: null, or the file's path and content
DiffFileResults == {Null} \cup {Some(c) : c \in Contents}

ViewNext ==
  \/ Edit
  \/ \E name \in PaneNames : TogglePane(name)
  \/ \E state \in LayoutPresets : LayoutPreset(state)
  \/ RenderTimerFires
  \/ \E mode \in {"history", "file"} : DiffModeChanged(mode)
  \/ \E result \in DiffFileResults : DiffFileChosen(result)
  \/ \E mode \in {"preview", "richDiff"} : PreviewTabClicked(mode)
  \/ \E source \in {"history", "file"} : DiffSourceChanged(source)
  \/ \E result \in DiffFileResults : PreviewDiffFileChosen(result)

ViewSpec == ViewInit /\ [][ViewNext]_vars

VisiblePanes == {k \in PaneNames : view.paneState[k]}

VisibleHandles == {h \in {"handle1", "handle2"} : view[h]}

\* C24: at least one of the three panes is visible, a toggle of the only
\* visible pane leaves the pane state as it is, and the number of visible
\* resize handles is the number of visible panes minus one
C24_PanesAndHandles ==
  /\ VisiblePanes # {}
  /\ \A name \in PaneNames :
       VisiblePanes = {name} =>
         togglePane(view, name, doc, originalContent).paneState = view.paneState
  /\ Cardinality(VisibleHandles) = Cardinality(VisiblePanes) - 1

\* a toggle of the only visible pane, the diff pane, has just been refused
C24_Witness ==
  /\ view.blocked
  /\ VisiblePanes = {"diff"}

\* editor and diff pane without the preview: one handle, the second
C24_WitnessEditorDiff ==
  /\ VisiblePanes = {"editor", "diff"}
  /\ VisibleHandles = {"handle2"}

(***************************************************************************)
(* The inline view against the standard view                               *)
(***************************************************************************)
\* the first and the last position of the run of containers of one class
\* around position p
RECURSIVE RunStart(_, _)
RunStart(divs, p) ==
  IF p > 1 /\ divs[p - 1].class = divs[p].class THEN RunStart(divs, p - 1) ELSE p

RECURSIVE RunEnd(_, _)
RunEnd(divs, p) ==
  IF p < Len(divs) /\ divs[p + 1].class = divs[p].class THEN RunEnd(divs, p + 1) ELSE p

\* where the container at position p of the standard view stands in the
\* inline view, as the interleaving by index places it
InlinePos(divs, p) ==
  LET s == RunStart(divs, p)
      e == RunEnd(divs, p)
      k == p - s
  IN IF divs[p].class = "md-diff-removed"
        /\ e < Len(divs) /\ divs[e + 1].class = "md-diff-added"
     THEN LET n == RunEnd(divs, e + 1) - e
          IN s + (IF k < n THEN 2 * k ELSE n + k)
     ELSE IF divs[p].class = "md-diff-added"
             /\ s > 1 /\ divs[s - 1].class = "md-diff-removed"
     THEN LET r == RunStart(divs, s - 1)
              m == s - r
          IN r + (IF k < m THEN 2 * k + 1 ELSE m + k)
     ELSE p

InlineDiffDone == called = "renderMarkdownDiffInline"

InlineClasses == [p \in 1..Len(html[1].children) |-> html[1].children[p].class]

C25_WitnessSurplusAdded ==
  /\ InlineDiffDone /\ ~raised
  /\ InlineClasses = <<"md-diff-removed", "md-diff-added", "md-diff-added">>

\* two against two
C25_WitnessPairs ==
  /\ InlineDiffDone /\ ~raised
  /\ InlineClasses = <<"md-diff-removed", "md-diff-added", "md-diff-removed", "md-diff-added">>

\* an added run that no removed run precedes, and a removed run that no
\* added run follows
C25_WitnessSequential ==
  /\ InlineDiffDone /\ ~raised
  /\ InlineClasses \in { <<"md-diff-unchanged", "md-diff-added", "md-diff-added">>,
                         <<"md-diff-removed", "md-diff-removed", "md-diff-unchanged">> }

(***************************************************************************)
(* Typing: what the preview and the diff pane do on each editor change     *)
(***************************************************************************)
\* C26 as stated: an editor change recomputes neither the line diff of the
\* diff pane nor the rendering of the preview; both wait for the end of the
\* burst.
C26_BothDebounced ==
  [][Edit => /\ view'.contentEl = view.contentEl
             /\ view'.body = view.body]_vars

\* the visible preview has no timeout pending and shows the rendering of
\* the editor's content in the preview's mode
PreviewSettled ==
  (view.paneState.preview /\ view.renderTimer = 0) =>
    view.body = renderCurrent([view EXCEPT !.currentSource = doc], originalContent).body

\* at most one timeout is pending, and the visible preview's timeout will
\* render the editor's content
OneTimerOnLatest ==
  /\ view.renderTimer \in {0, 1}
  /\ (view.paneState.preview /\ view.renderTimer = 1) => view.currentSource = doc

\* the visible diff pane never lags the editor: in Edit History mode it
\* shows the line diff of originalContent and the editor's content
DiffPaneCurrent ==
  (view.paneState.diff /\ view.diffMode = "history") =>
    view.contentEl = IF doc = originalContent THEN Shown("noChangesDiff", 0, 0)
                     ELSE Shown("computeDiff", originalContent, doc)

\* C26: only the preview (with its rich diff) is debounced. An editor change
\* leaves the preview as rendered and leaves exactly one timeout of 150 ms
\* pending, set for the latest content; the timeout renders once; without a
\* pending timeout the visible preview shows the editor's content. The line
\* diff is not debounced: with the diff pane visible every editor change
\* runs updateDiff on the new content within the change handler, with it
\* hidden the change leaves the diff pane alone, and showing it runs
\* updateDiff at once.
C26_PreviewDebouncedDiffImmediate ==
  [][ /\ OneTimerOnLatest /\ OneTimerOnLatest'
      /\ PreviewSettled /\ PreviewSettled'
      /\ DiffPaneCurrent /\ DiffPaneCurrent'
      /\ Edit =>
           /\ view'.body = view.body
           /\ view.paneState.preview => view'.renderTimer = 1
           /\ ~view.paneState.preview => view'.renderTimer = view.renderTimer
           /\ ~view.paneState.diff => view'.contentEl = view.contentEl
           /\ (view.paneState.diff /\ view.diffMode = "history") =>
                view'.contentEl =
                  IF doc' = originalContent THEN Shown("noChangesDiff", 0, 0)
                  ELSE Shown("computeDiff", originalContent, doc')
           /\ (view.paneState.diff /\ view'.contentEl.kind = "computeDiff") =>
                view'.contentEl.new = doc'
      /\ RenderTimerFires =>
           /\ view'.renderTimer = 0
           /\ view'.body = renderCurrent(view, originalContent).body
    ]_vars

\* C26 witness: in a burst, preview and diff pane visible: the timeout is
\* pending for the editor's content, the preview still shows the rendering
\* of other content, and the diff pane shows the line diff of the editor's
\* content.
C26_Witness ==
  /\ view.paneState.preview /\ view.paneState.diff
  /\ view.renderTimer = 1
  /\ view.currentSource = doc
  /\ view.body.new # doc
  /\ view.diffMode = "history"
  /\ view.contentEl = Shown("computeDiff", originalContent, doc)

\* after the burst: the timeout has fired and the rich diff of the preview
\* is that of the editor's content
C26_WitnessSettled ==
  /\ view.paneState.preview /\ view.renderTimer = 0
  /\ view.previewMode = "richDiff"
  /\ isDirty
  /\ view.body = Shown("renderMarkdownDiff", originalContent, doc)
  /\ doc # originalContent

(***************************************************************************)
(* Comparing with a chosen file                                            *)
(***************************************************************************)
\* what the diff pane shows for the comparison file content file
ComparedInDiffPane(file) ==
  IF file = doc THEN Shown("noChangesDiff", 0, 0)
  ELSE Shown("computeDiff", file, doc)

\* the claim of C29 for the comparison files in files
FileCompared(files) ==
  /\ (view.paneState.diff /\ view.diffMode = "file") =>
       IF view.comparisonFileContent = Null
       THEN view.contentEl.kind = "selectFile"
       ELSE view.comparisonFileContent[1] \in files =>
              view.contentEl = ComparedInDiffPane(view.comparisonFileContent[1])
  /\ (/\ view.paneState.preview /\ view.renderTimer = 0
      /\ view.previewMode = "richDiff" /\ view.diffSource = "file") =>
       IF view.diffFileContent = Null
       THEN view.body.kind = "selectFile"
       ELSE view.diffFileContent[1] \in files =>
              view.body = Shown("renderMarkdownDiff", view.diffFileContent[1], doc)

\* C29: in File Compare mode of the diff pane and in the vs. File mode of
\* the rich diff, once a comparison file is chosen the pane shows the diff
\* of the file's content and the editor's content, for every file content,
\* the empty file included; the "select a file" placeholder shows only while
\* no file is chosen.
C29_ChosenFileCompared == FileCompared(Contents)

\* the same for the files that are not empty
C29_NonEmptyFileCompared == FileCompared(Contents \ {0})

\* an empty file is chosen in the diff pane, the document is not empty, and
\* the pane asks for a file
C29_WitnessEmptyFile ==
  /\ view.paneState.diff /\ view.diffMode = "file"
  /\ view.comparisonFileContent = Some(0)
  /\ doc # 0
  /\ view.contentEl.kind = "selectFile"

\* the same in the rich diff of the preview
C29_WitnessEmptyFilePreview ==
  /\ view.paneState.preview /\ view.renderTimer = 0
  /\ view.previewMode = "richDiff" /\ view.diffSource = "file"
  /\ view.diffFileContent = Some(0)
  /\ doc # 0
  /\ view.body.kind = "selectFile"

\* a file that is not empty is compared in both panes
C29_WitnessCompared ==
  /\ view.paneState.diff /\ view.diffMode = "file"
  /\ view.comparisonFileContent = Some(1) /\ doc = 2
  /\ view.contentEl = Shown("computeDiff", 1, 2)
  /\ view.paneState.preview /\ view.renderTimer = 0
  /\ view.previewMode = "richDiff" /\ view.diffSource = "file"
  /\ view.diffFileContent = Some(2)
  /\ view.body = Shown("renderMarkdownDiff", 2, 2)

(***************************************************************************)
(* The clean flag and the saved content                                    *)
(***************************************************************************)
\* C27: whenever isDirty is false the editor content equals originalContent,
\* the content last opened, created or saved; an edit made while saveFile or
\* saveFileAs awaits the write is not left unflagged.
C27_CleanMeansSaved ==
  (winOpen /\ ~isDirty) => doc = originalContent

\* an edit arrived while saveFile or saveFileAs awaited the write: the save
\* has completed, the flag is clean, and the editor holds content that is
\* neither originalContent nor in the file
C27_WitnessEditDuringSave ==
  /\ winOpen /\ ~isDirty
  /\ doc # originalContent
  /\ currentFilePath # Null
  /\ disk[currentFilePath[1]] = Some(originalContent)
  /\ \E i \in 1..MaxFileOps :
       fileOps[i].kind \in {"save", "saveAs"} /\ fileOps[i].pc = "session:clear"

\* the same once the save has run to its end
C27_WitnessUnflaggedEdit ==
  /\ winOpen /\ ~isDirty
  /\ doc # originalContent
  /\ currentFilePath # Null
  /\ disk[currentFilePath[1]] = Some(originalContent)
  /\ \A i \in 1..MaxFileOps : fileOps[i] = NoOp
  /\ ipc = <<>>

\* performRestore has set the restored content and awaits the read of the
\* entry's file: the flag is still clean
C27_WitnessRestoreAwaits ==
  /\ winOpen /\ ~isDirty
  /\ doc # originalContent
  /\ \E i \in 1..MaxFileOps :
       fileOps[i].kind = "restore" /\ fileOps[i].pc = "file:openByPath"

(***************************************************************************)
(* What a closed window leaves behind                                      *)
(***************************************************************************)
\* the close handler k let the window close after a clean close, after Save
\* or Save As, or after Exit without saving
ClosedDeliberately(k) ==
  \/ closeHandlers[k].pc = "closedClean"
  \/ /\ closeHandlers[k].pc = "closed"
     /\ closeHandlers[k].result \in {"save", "saveAs", "exitNoSave"}

\* C28: once the window has closed after a clean close, after Save or Save
\* As in the close dialog, or after Exit without saving, neither
\* session-<pid>.json nor autosave-<pid>.json of the process is on disk, also
\* when the session timer or the autosave timer fired between the clearing
\* of the files and the destruction of the window.
C28_NothingLeftBehind ==
  \A k \in Handlers :
    (~winOpen /\ ClosedDeliberately(k)) =>
      /\ sessionFile = Null
      /\ backupFile = Null

\* the session file of the ended process is listed in the recovery dialog of
\* the next instance
SessionOffered ==
  /\ recovery # Null
  /\ recovery[1].state = "open"
  /\ FileOf("session", OldPid) \in recovery[1].entries

\* Exit without saving closed the window, the session timer fired before
\* the window was destroyed, and the next instance offers the discarded
\* document for recovery
C28_WitnessDiscardedOffered ==
  /\ \E k \in Handlers :
       closeHandlers[k].pc = "closed" /\ closeHandlers[k].result = "exitNoSave"
  /\ ~winOpen
  /\ sessionFile # Null
  /\ Gathered
  /\ SessionOffered

\* Save in the close dialog wrote the file and closed the window; the
\* session file written afterwards holds the saved content as unsaved
C28_WitnessSavedOffered ==
  /\ \E k \in Handlers :
       /\ closeHandlers[k].pc = "closed" /\ closeHandlers[k].result = "save"
       /\ sessionFile = Some(BackupData(closeHandlers[k].content,
                                        closeHandlers[k].state.filePath, TRUE))
       /\ disk[closeHandlers[k].state.filePath[1]] = Some(closeHandlers[k].content)
  /\ ~winOpen
  /\ Gathered
  /\ SessionOffered

\* the autosave timer fired after Exit without saving cleared the backup
C28_WitnessBackupLeft ==
  /\ \E k \in Handlers :
       closeHandlers[k].pc = "closed" /\ closeHandlers[k].result = "exitNoSave"
  /\ ~winOpen
  /\ backupFile # Null

(***************************************************************************)
(* Different texts with the same blocks                                    *)
(***************************************************************************)
\* C30: for different strings with equal block sequences renderMarkdownDiff
\* returns one unchanged container per block, no added and no removed one,
\* and not the "No changes" container; that container is returned only for
\* identical strings.
C30_SameBlocksAllUnchanged ==
  BlockDiffDone =>
    /\ (oldText # newText /\ splitIntoBlocks(oldText) = splitIntoBlocks(newText)) =>
         /\ ~raised
         /\ html # NoChanges
         /\ Len(html) = Len(splitIntoBlocks(oldText))
         /\ \A p \in 1..Len(html) : html[p].class = "md-diff-unchanged"
    /\ html = NoChanges => oldText = newText

\* C30 witness: two texts of the same two blocks that differ in a blank
\* line, rendered as two unchanged containers.
C30_Witness ==
  /\ BlockDiffDone /\ ~raised
  /\ oldText # newText
  /\ splitIntoBlocks(oldText) = splitIntoBlocks(newText)
  /\ Len(html) = 2
  /\ \A p \in 1..Len(html) : html[p].class = "md-diff-unchanged"

\* blank lines only against the empty text: no block, no container
C30_WitnessNoBlocks ==
  /\ BlockDiffDone /\ ~raised
  /\ oldText # newText
  /\ splitIntoBlocks(oldText) = <<>> /\ splitIntoBlocks(newText) = <<>>
  /\ html = <<>>

=============================================================================
